---- MODULE Spec2Model ----
(***************************************************************************)
(* Model of the PLAF risk-scoring pipeline: cohort-relative z-score        *)
(* feature engineering, the at-risk label, model selection and             *)
(* counterfactual generation.                                              *)
(*                                                                         *)
(* Python floats are modelled as binary floating-point numbers <<m, e>>    *)
(* (value m * 2^e) with a Precision-bit significand and round-to-nearest-  *)
(* even, the arithmetic of IEEE-754 at a reduced significand width.        *)
(* Column names are the source's strings, so that the substring tests of   *)
(* the code are computed, not tabulated.                                   *)
(***************************************************************************)
EXTENDS Integers, Sequences, FiniteSets, TLC

\* ------------------------------------------------------------------------
\* Bounds of the model
\* ------------------------------------------------------------------------
Precision == 5      \* significand bits of the modelled float (53 in Python)
MaxRows == 3        \* rows of the student table
MaxStudents == 2    \* rows of the raw studentInfo table
NFolds == 2         \* folds of the cross-validation (n_folds)
AggFolds == 3       \* folds whose scores are aggregated in another order
MaxHist == 5        \* rows of the historical data of the cold-start handler
MaxSupport == 2     \* examples of a support set
MaxFits == 2        \* ProtoNet.fit calls on one instance
MaxCalls == 3       \* calls made to the database in one run
MaxCFs == 1         \* counterfactual rows one search returns (total_CFs)
MaxTest == 3        \* test students of a counterfactual run (rows of X_test)
MaxBatch == 2       \* students of an advice batch (students_data)
MaxTokens == 3      \* tokens of an LLM response text
MaxResponses == 2   \* responses of one quiz submission
MaxSubmits == 2     \* submit_quiz_attempt calls of one run
MaxAttemptRows == 2 \* rows of student_quiz_attempts in a submission run
MaxRequests == 3    \* start-quiz requests of one run
MaxVotes == 4       \* vote_forum_post calls of one run
MaxOps == 3         \* progress operations of one run

\* ------------------------------------------------------------------------
\* Floating-point arithmetic (Python float: + - * / sqrt and comparisons)
\* ------------------------------------------------------------------------
NaN == <<0, 1>>
Zero == <<0, 0>>

IsNaN(a) == a = NaN

Abs(n) == IF n < 0 THEN -n ELSE n

Sgn(n) == IF n < 0 THEN -1 ELSE IF n > 0 THEN 1 ELSE 0

Min2(a, b) == IF a <= b THEN a ELSE b

Pow2(k) == IF k <= 0 THEN 1 ELSE 2 ^ k

RECURSIVE BitLen(_)
BitLen(n) == IF n = 0 THEN 0 ELSE 1 + BitLen(n \div 2)

\* canonical form: odd significand, or <<0, 0>>
RECURSIVE NormMag(_, _, _)
NormMag(s, n, e) ==
    IF n = 0 THEN Zero
    ELSE IF n % 2 = 0 THEN NormMag(s, n \div 2, e + 1)
    ELSE <<s * n, e>>

\* s * n * 2^e rounded to Precision bits, ties to even
RoundNE(s, n, e) ==
    LET k == BitLen(n) - Precision IN
    IF k <= 0 THEN NormMag(s, n, e)
    ELSE LET q == n \div Pow2(k)
             r == n % Pow2(k)
             half == Pow2(k - 1)
             up == r > half \/ (r = half /\ q % 2 = 1)
         IN NormMag(s, IF up THEN q + 1 ELSE q, e + k)

FromInt(i) == RoundNE(IF i < 0 THEN -1 ELSE 1, Abs(i), 0)

\* exponent of the bit above the leading bit
Top(a) == a[2] + BitLen(Abs(a[1]))

FNeg(a) == IF IsNaN(a) THEN NaN ELSE <<-a[1], a[2]>>

FAdd(a, b) ==
    IF IsNaN(a) \/ IsNaN(b) THEN NaN
    ELSE IF a[1] = 0 THEN b
    ELSE IF b[1] = 0 THEN a
    ELSE IF Top(a) - Top(b) > Precision + 2 THEN a
    ELSE IF Top(b) - Top(a) > Precision + 2 THEN b
    ELSE LET e == Min2(a[2], b[2])
             n == a[1] * Pow2(a[2] - e) + b[1] * Pow2(b[2] - e)
         IN RoundNE(IF n < 0 THEN -1 ELSE 1, Abs(n), e)

FSub(a, b) == FAdd(a, FNeg(b))

FMul(a, b) ==
    IF IsNaN(a) \/ IsNaN(b) THEN NaN
    ELSE LET n == a[1] * b[1]
         IN RoundNE(IF n < 0 THEN -1 ELSE 1, Abs(n), a[2] + b[2])

\* x / 0 is inf or nan in numpy; every use in the model is guarded or the
\* result is discarded, so it is folded into NaN
FDiv(a, b) ==
    IF IsNaN(a) \/ IsNaN(b) \/ b[1] = 0 THEN NaN
    ELSE IF a[1] = 0 THEN Zero
    ELSE LET k == 2 * Precision + 2
             num == Abs(a[1]) * Pow2(k)
             den == Abs(b[1])
             q == num \div den
             st == IF num % den = 0 THEN 0 ELSE 1
         IN RoundNE(Sgn(a[1]) * Sgn(b[1]), 2 * q + st, a[2] - b[2] - k - 1)

RECURSIVE ISqrtIter(_, _, _)
ISqrtIter(n, bit, acc) ==
    IF bit = 0 THEN acc
    ELSE LET c == acc + bit
         IN ISqrtIter(n, bit \div 2, IF c * c <= n THEN c ELSE acc)

ISqrt(n) == ISqrtIter(n, Pow2((BitLen(n) + 1) \div 2), 0)

FSqrt(a) ==
    IF IsNaN(a) \/ a[1] < 0 THEN NaN
    ELSE IF a[1] = 0 THEN Zero
    ELSE LET k0 == 2 * Precision + 4
             k == IF (a[2] - k0) % 2 = 0 THEN k0 ELSE k0 + 1
             n == a[1] * Pow2(k)
             s == ISqrt(n)
             st == IF s * s = n THEN 0 ELSE 1
         IN RoundNE(1, 2 * s + st, ((a[2] - k) \div 2) - 1)

\* a > b; False when either side is NaN
FGt(a, b) == ~IsNaN(a) /\ ~IsNaN(b) /\ FSub(a, b)[1] > 0

FLe(a, b) == ~IsNaN(a) /\ ~IsNaN(b) /\ FSub(a, b)[1] <= 0

\* ------------------------------------------------------------------------
\* Strings (Python: in, endswith, sorted)
\* ------------------------------------------------------------------------
Contains(sub, s) ==
    \E i \in 1..(Len(s) - Len(sub) + 1) : SubSeq(s, i, i + Len(sub) - 1) = sub

EndsWith(s, suf) ==
    Len(s) >= Len(suf) /\ SubSeq(s, Len(s) - Len(suf) + 1, Len(s)) = suf

Alphabet == "0123456789ABCDEFGHIJKLMNOPQRSTUVWXYZ_abcdefghijklmnopqrstuvwxyz"

Ord(c) == CHOOSE i \in 1..Len(Alphabet) : SubSeq(Alphabet, i, i) = c

RECURSIVE StrLt(_, _)
StrLt(a, b) ==
    IF Len(b) = 0 THEN FALSE
    ELSE IF Len(a) = 0 THEN TRUE
    ELSE IF Head(a) = Head(b) THEN StrLt(Tail(a), Tail(b))
    ELSE Ord(Head(a)) < Ord(Head(b))

\* ------------------------------------------------------------------------
\* Tables (pandas DataFrame): ordered column names, the set of numeric
\* columns, and rows holding categorical (string) and numeric (float) cells
\* ------------------------------------------------------------------------
NoFn == [x \in {} |-> x]

Range(s) == {s[i] : i \in 1..Len(s)}

RECURSIVE SelectSeq2(_, _)
SelectSeq2(s, S) ==
    IF Len(s) = 0 THEN <<>>
    ELSE IF Head(s) \in S THEN <<Head(s)>> \o SelectSeq2(Tail(s), S)
    ELSE SelectSeq2(Tail(s), S)

HasCol(t, c) == c \in Range(t.cols)

NRows(t) == Len(t.rows)

Col(t, c) == [i \in 1..NRows(t) |-> t.rows[i].num[c]]

\* df[name] = vals: overwrite in place, or append a new numeric column
SetNum(t, name, vals) ==
    [cols |-> IF HasCol(t, name) THEN t.cols ELSE Append(t.cols, name),
     num  |-> t.num \cup {name},
     rows |-> [i \in 1..NRows(t) |->
                 [t.rows[i] EXCEPT !.num = (name :> vals[i]) @@ @]]]

NotNa(vals) == {i \in 1..Len(vals) : ~IsNaN(vals[i])}

\* Series.nunique(): distinct non-missing values
NUnique(vals) == Cardinality({vals[i] : i \in NotNa(vals)})

\* Series.max() / Series.min(): skip NaN, NaN when nothing is left
SeriesMax(vals) ==
    IF NotNa(vals) = {} THEN NaN
    ELSE vals[CHOOSE i \in NotNa(vals) : \A j \in NotNa(vals) : FLe(vals[j], vals[i])]

SeriesMin(vals) ==
    IF NotNa(vals) = {} THEN NaN
    ELSE vals[CHOOSE i \in NotNa(vals) : \A j \in NotNa(vals) : FLe(vals[i], vals[j])]

\* ------------------------------------------------------------------------
\* FeatureEngineer.encode_categorical_features
\* ------------------------------------------------------------------------
categorical_cols ==
    <<"code_module", "code_presentation", "gender", "region",
      "highest_education", "imd_band", "age_band", "disability">>

\* LabelEncoder.fit_transform: index in the sorted distinct values
LabelEncode(vals) ==
    LET classes == Range(vals)
    IN [i \in 1..Len(vals) |->
          FromInt(Cardinality({u \in classes : StrLt(u, vals[i])}))]

RECURSIVE EncodeCols(_, _)
EncodeCols(t, todo) ==
    IF Len(todo) = 0 THEN t
    ELSE LET col == Head(todo)
             catvals == [i \in 1..NRows(t) |-> t.rows[i].cat[col]]
         IN IF HasCol(t, col)
            THEN EncodeCols(SetNum(t, col \o "_encoded", LabelEncode(catvals)),
                            Tail(todo))
            ELSE EncodeCols(t, Tail(todo))

encode_categorical_features(t) == EncodeCols(t, categorical_cols)

\* ------------------------------------------------------------------------
\* FeatureEngineer.create_derived_features
\* ------------------------------------------------------------------------
One == FromInt(1)

MicroEps == FDiv(One, FromInt(1000000))     \* 1e-6

BoolInt(b) == IF b THEN One ELSE Zero

\* (x - min) / (max - min + 1e-6)
MinMaxNorm(vals) ==
    LET lo == SeriesMin(vals)
        hi == SeriesMax(vals)
    IN [i \in 1..Len(vals) |->
          FDiv(FSub(vals[i], lo), FAdd(FSub(hi, lo), MicroEps))]

DerivedSubmissionRate(t) ==
    IF HasCol(t, "avg_score") /\ HasCol(t, "num_assessments")
    THEN LET na == Col(t, "num_assessments")
             den == FAdd(SeriesMax(na), One)
         IN SetNum(t, "submission_rate",
                   [i \in 1..NRows(t) |-> FDiv(na[i], den)])
    ELSE t

DerivedClicksPerActiveDay(t) ==
    IF HasCol(t, "total_clicks") /\ HasCol(t, "num_days_active")
    THEN LET tc == Col(t, "total_clicks")
             nda == Col(t, "num_days_active")
         IN SetNum(t, "clicks_per_active_day",
                   [i \in 1..NRows(t) |->
                      IF FGt(nda[i], Zero) THEN FDiv(tc[i], nda[i]) ELSE Zero])
    ELSE t

DerivedResourceDiversity(t) ==
    IF HasCol(t, "num_unique_resources") /\ HasCol(t, "num_days_active")
    THEN LET nur == Col(t, "num_unique_resources")
             nda == Col(t, "num_days_active")
         IN SetNum(t, "resource_diversity",
                   [i \in 1..NRows(t) |->
                      IF FGt(nda[i], Zero)
                      THEN FDiv(nur[i], FAdd(nda[i], One)) ELSE Zero])
    ELSE t

DerivedEarlyEngagement(t) ==
    IF HasCol(t, "first_vle_access")
    THEN LET fva == Col(t, "first_vle_access")
         IN SetNum(t, "early_engagement",
                   [i \in 1..NRows(t) |-> BoolInt(FLe(fva[i], FromInt(7)))])
    ELSE t

DerivedHasLate(t) ==
    IF HasCol(t, "num_late_submissions")
    THEN LET v == Col(t, "num_late_submissions")
         IN SetNum(t, "has_late_submissions",
                   [i \in 1..NRows(t) |-> BoolInt(FGt(v[i], Zero))])
    ELSE t

DerivedHasUnreg(t) ==
    IF HasCol(t, "num_unregistrations")
    THEN LET v == Col(t, "num_unregistrations")
         IN SetNum(t, "has_unregistrations",
                   [i \in 1..NRows(t) |-> BoolInt(FGt(v[i], Zero))])
    ELSE t

DerivedStudyIntensity(t) ==
    IF HasCol(t, "avg_score") /\ HasCol(t, "total_clicks")
    THEN LET sn == MinMaxNorm(Col(t, "avg_score"))
             cn == MinMaxNorm(Col(t, "total_clicks"))
         IN SetNum(t, "study_intensity",
                   [i \in 1..NRows(t) |-> FDiv(FAdd(sn[i], cn[i]), FromInt(2))])
    ELSE t

create_derived_features(t) ==
    DerivedStudyIntensity(DerivedHasUnreg(DerivedHasLate(DerivedEarlyEngagement(
        DerivedResourceDiversity(DerivedClicksPerActiveDay(
            DerivedSubmissionRate(t)))))))

\* ------------------------------------------------------------------------
\* FeatureEngineer.apply_zscore_standardization
\* ------------------------------------------------------------------------
default_features ==
    <<"avg_score", "score_std", "min_score", "max_score",
      "total_clicks", "avg_clicks_per_day", "num_days_active",
      "num_unique_resources", "clicks_per_active_day",
      "resource_diversity", "submission_rate", "study_intensity">>

\* variant: cohorts keyed by the module alone
groupby_module_only(r) == <<r.cat["code_module"]>>

\* groupby_cols = ['code_module', 'code_presentation']
groupby_cols(r) == <<r.cat["code_module"], r.cat["code_presentation"]>>

RECURSIVE GroupVals(_, _, _, _)
GroupVals(t, f, key, i) ==
    IF i > NRows(t) THEN <<>>
    ELSE (IF groupby_cols(t.rows[i]) = key THEN <<t.rows[i].num[f]>> ELSE <<>>)
         \o GroupVals(t, f, key, i + 1)

RECURSIVE SumSeq(_)
SumSeq(vals) == IF Len(vals) = 0 THEN Zero ELSE FAdd(Head(vals), SumSeq(Tail(vals)))

RECURSIVE DropNa(_)
DropNa(vals) ==
    IF Len(vals) = 0 THEN <<>>
    ELSE (IF IsNaN(Head(vals)) THEN <<>> ELSE <<Head(vals)>>) \o DropNa(Tail(vals))

\* groupby 'mean': sum of the non-missing values over their count
GroupMean(vals) ==
    LET nn == DropNa(vals)
    IN IF Len(nn) = 0 THEN NaN ELSE FDiv(SumSeq(nn), FromInt(Len(nn)))

\* groupby 'std': one-pass (Welford) variance with ddof = 1, then sqrt
RECURSIVE Welford(_, _, _, _)
RECURSIVE WelfordStep(_, _, _, _, _)
Welford(vals, nobs, mean, m2) ==
    IF Len(vals) = 0 THEN <<nobs, mean, m2>>
    ELSE WelfordStep(vals, nobs, mean, m2,
                     FAdd(mean, FDiv(FSub(Head(vals), mean), FromInt(nobs + 1))))

\* m2 += (val - newmean) * (val - mean)
WelfordStep(vals, nobs, mean, m2, newmean) ==
    Welford(Tail(vals), nobs + 1, newmean,
            FAdd(m2, FMul(FSub(Head(vals), newmean), FSub(Head(vals), mean))))

\* sqrt(m2 / (nobs - ddof)), missing when nobs <= ddof
StdOfMoments(w) ==
    IF w[1] <= 1 THEN NaN ELSE FSqrt(FDiv(w[3], FromInt(w[1] - 1)))

GroupStd(vals) == StdOfMoments(Welford(DropNa(vals), 0, Zero, Zero))

\* variant: statistics rows that are not aggregated per cohort
cohort_stats_per_row(t, f) ==
    {[key |-> groupby_cols(t.rows[i]), mean |-> t.rows[i].num[f], std |-> NaN] :
        i \in 1..NRows(t)}

\* df.groupby(groupby_cols)[feature].agg(['mean', 'std']).reset_index()
cohort_stats(t, f) ==
    LET keys == {groupby_cols(t.rows[i]) : i \in 1..NRows(t)}
    IN {[key |-> k,
         mean |-> GroupMean(GroupVals(t, f, k, 1)),
         std |-> GroupStd(GroupVals(t, f, k, 1))] : k \in keys}

RECURSIVE SetToSeq(_)
SetToSeq(S) ==
    IF S = {} THEN <<>>
    ELSE LET x == CHOOSE y \in S : TRUE IN <<x>> \o SetToSeq(S \ {x})

\* df.merge(cohort_stats, on=groupby_cols, how='left'): one output row per
\* matching statistics row, or one row with missing statistics
RECURSIVE MergeLeftRows(_, _, _, _)
MergeLeftRows(rows, stats, mean_col, std_col) ==
    IF Len(rows) = 0 THEN <<>>
    ELSE LET r == Head(rows)
             hits == SetToSeq({s \in stats : s.key = groupby_cols(r)})
             ext(m, sd) == [r EXCEPT !.num = (mean_col :> m) @@ (std_col :> sd) @@ @]
             out == IF Len(hits) = 0 THEN <<ext(NaN, NaN)>>
                    ELSE [j \in 1..Len(hits) |-> ext(hits[j].mean, hits[j].std)]
         IN out \o MergeLeftRows(Tail(rows), stats, mean_col, std_col)

MergeStats(t, stats, mean_col, std_col) ==
    [cols |-> t.cols \o <<mean_col, std_col>>,
     num  |-> t.num \cup {mean_col, std_col},
     rows |-> MergeLeftRows(t.rows, stats, mean_col, std_col)]

\* a statistics column that already exists is suffixed _x / _y by the merge
RenameCol(t, old, new) ==
    [cols |-> [i \in 1..Len(t.cols) |-> IF t.cols[i] = old THEN new ELSE t.cols[i]],
     num  |-> (t.num \ {old}) \cup {new},
     rows |-> [i \in 1..NRows(t) |->
                 [t.rows[i] EXCEPT !.num =
                     [c \in (DOMAIN @ \ {old}) \cup {new} |->
                         IF c = new THEN @[old] ELSE @[c]]]]]

MergeSuffixed(t, stats, mean_col, std_col) ==
    LET t1 == IF HasCol(t, mean_col) THEN RenameCol(t, mean_col, mean_col \o "_x") ELSE t
        t2 == IF HasCol(t1, std_col) THEN RenameCol(t1, std_col, std_col \o "_x") ELSE t1
    IN MergeStats(t2, stats,
                  IF HasCol(t, mean_col) THEN mean_col \o "_y" ELSE mean_col,
                  IF HasCol(t, std_col) THEN std_col \o "_y" ELSE std_col)

\* variant: the raw value is kept when the cohort std is not positive
ZScore_raw_fallback(x, mean, std) ==
    IF FGt(std, Zero) THEN FDiv(FSub(x, mean), std) ELSE x

\* np.where(std > 0, (x - mean) / std, 0)
ZScore(x, mean, std) == IF FGt(std, Zero) THEN FDiv(FSub(x, mean), std) ELSE Zero

\* df[f + '_z'] from the merged mean and std columns
ZscoreColumn(m, f) ==
    SetNum(m, f \o "_z",
           [i \in 1..NRows(m) |->
               ZScore(m.rows[i].num[f], m.rows[i].num[f \o "_mean"],
                      m.rows[i].num[f \o "_std"])])

RECURSIVE ZscoreLoop(_, _, _)
RECURSIVE ZscoreFeature(_, _, _, _, _)
ZscoreLoop(t, params, todo) ==
    IF Len(todo) = 0 THEN [df |-> t, z_score_params |-> params, exc |-> "none"]
    ELSE ZscoreFeature(t, params, todo, Head(todo), cohort_stats(t, Head(todo)))

\* one pass of the loop: merge the cohort statistics of f, then add f_z
ZscoreFeature(t, params, todo, f, stats) ==
    IF HasCol(t, f \o "_mean") \/ HasCol(t, f \o "_std")
    THEN [df |-> MergeSuffixed(t, stats, f \o "_mean", f \o "_std"),
          z_score_params |-> params, exc |-> "KeyError"]
    ELSE ZscoreLoop(ZscoreColumn(MergeStats(t, stats, f \o "_mean", f \o "_std"), f),
                    (f :> [mean_col |-> f \o "_mean", std_col |-> f \o "_std"]) @@ params,
                    Tail(todo))

\* features_to_standardize = [f for f in features_to_standardize if f in df.columns]
apply_zscore_standardization(t, params, features_to_standardize) ==
    ZscoreLoop(t, params, SelectSeq2(features_to_standardize, Range(t.cols)))

\* variant: the cohort mean is not added back
convert_zscore_to_raw_no_mean(z_score, cohort_mean, cohort_std) ==
    FMul(z_score, cohort_std)

\* FeatureEngineer.convert_zscore_to_raw
convert_zscore_to_raw(z_score, cohort_mean, cohort_std) ==
    FAdd(FMul(z_score, cohort_std), cohort_mean)

\* ------------------------------------------------------------------------
\* FeatureEngineer.get_feature_columns / prepare_modeling_data
\* ------------------------------------------------------------------------
AnyIn(keywords, col) == \E k \in keywords : Contains(k, col)

IsDemographic(col) ==
    Contains("_encoded", col)
    /\ AnyIn({"gender", "region", "education", "imd", "age", "disability"}, col)

IsBehavioral(col) == AnyIn({"late", "early", "unregistration", "submission_rate"}, col)

IsZScoreFeature(col) == EndsWith(col, "_z")

get_feature_columns(t) ==
    [demographic |-> SelectSeq(t.cols, IsDemographic),
     behavioral |-> SelectSeq(t.cols, IsBehavioral),
     z_score_features |-> SelectSeq(t.cols, IsZScoreFeature)]

\* a column is kept when it has a non-missing value and is not constant
IsValidFeature(t, col) ==
    Cardinality(NotNa(Col(t, col))) > 0 /\ NUnique(Col(t, col)) > 1

\* variant: no seen_features check
RECURSIVE ValidLoop_no_seen(_, _, _)
ValidLoop_no_seen(t, todo, valid) ==
    IF Len(todo) = 0 THEN valid
    ELSE LET col == Head(todo)
         IN IF HasCol(t, col) /\ IsValidFeature(t, col)
            THEN ValidLoop_no_seen(t, Tail(todo), Append(valid, col))
            ELSE ValidLoop_no_seen(t, Tail(todo), valid)

RECURSIVE ValidLoop(_, _, _)
ValidLoop(t, todo, valid) ==
    IF Len(todo) = 0 THEN valid
    ELSE LET col == Head(todo)
         IN IF HasCol(t, col) /\ col \notin Range(valid) /\ IsValidFeature(t, col)
            THEN ValidLoop(t, Tail(todo), Append(valid, col))
            ELSE ValidLoop(t, Tail(todo), valid)

identifier_cols == <<"id_student", "code_module", "code_presentation">>

\* df[final_cols].copy() followed by fillna(0) on the feature columns
SelectAndFill(t, final_cols, valid) ==
    [cols |-> final_cols,
     num  |-> t.num \cap Range(final_cols),
     rows |-> [i \in 1..NRows(t) |->
                 [cat |-> [c \in (DOMAIN t.rows[i].cat) \cap Range(final_cols) |->
                              t.rows[i].cat[c]],
                  num |-> [c \in t.num \cap Range(final_cols) |->
                              IF c \in Range(valid) /\ IsNaN(t.rows[i].num[c])
                              THEN Zero ELSE t.rows[i].num[c]]]]]

EmptyTable == [cols |-> <<>>, num |-> {}, rows |-> <<>>]

prepare_modeling_data(t) ==
    LET fc == get_feature_columns(t)
        modeling_features == fc.z_score_features \o fc.demographic \o fc.behavioral
        valid == ValidLoop(t, modeling_features, <<>>)
        final_cols == identifier_cols \o valid \o <<"is_at_risk">>
    IN IF Range(final_cols) \subseteq Range(t.cols)
       THEN [final_df |-> SelectAndFill(t, final_cols, valid),
             valid_features |-> valid, exc |-> "none"]
       ELSE [final_df |-> EmptyTable, valid_features |-> <<>>, exc |-> "KeyError"]

\* ------------------------------------------------------------------------
\* OULADLoader.create_target_variable / OULADPreprocessor.create_target_variable
\* ------------------------------------------------------------------------
\* variant: withdrawn students are not counted as at-risk
AtRisk_fail_only(final_result) == IF final_result \in {"Fail"} THEN 1 ELSE 0

\* preprocessing.py: lambda x: 1 if x in ['Fail', 'Withdrawn'] else 0
AtRisk(final_result) == IF final_result \in {"Fail", "Withdrawn"} THEN 1 ELSE 0

\* loader.py: lambda x: 1 if x in ['Fail', 'Withdrawn'] else 0
LoaderAtRisk(final_result) == IF final_result \in {"Fail", "Withdrawn"} THEN 1 ELSE 0

create_target_variable(student_df) ==
    SetNum(student_df, "is_at_risk",
           [i \in 1..NRows(student_df) |->
               FromInt(AtRisk(student_df.rows[i].cat["final_result"]))])

loader_create_target_variable(student_df) ==
    SetNum(student_df, "is_at_risk",
           [i \in 1..NRows(student_df) |->
               FromInt(LoaderAtRisk(student_df.rows[i].cat["final_result"]))])

\* ------------------------------------------------------------------------
\* OULADPreprocessor.clean_data (studentInfo carries no imd_band column in
\* the modelled inputs)
\* ------------------------------------------------------------------------
FillField(events, fld) ==
    [k \in 1..Len(events) |->
        [events[k] EXCEPT ![fld] = IF IsNaN(@) THEN Zero ELSE @]]

\* df_clean['score'].fillna(0, inplace=True) fills the table only where the
\* column selection is a view of it; in_place is that outcome
clean_data(d, in_place) ==
    IF in_place
    THEN [d EXCEPT !.studentAssessment = FillField(@, "score"),
                   !.studentVle = FillField(@, "sum_click")]
    ELSE d

\* ------------------------------------------------------------------------
\* OULADPreprocessor.aggregate_*_features: groupby
\* (id_student, code_module, code_presentation)
\* ------------------------------------------------------------------------
EvKey(e) == <<e.id_student, e.code_module, e.code_presentation>>

RowKey(r) == <<r.num["id_student"], r.cat["code_module"], r.cat["code_presentation"]>>

EvKeys(events) == {EvKey(events[k]) : k \in 1..Len(events)}

Group(events, key) == SelectSeq(events, LAMBDA e : EvKey(e) = key)

Field(g, fld) == [k \in 1..Len(g) |-> g[k][fld]]

AggCount(vals) == FromInt(Len(DropNa(vals)))

AggSum(vals) == SumSeq(DropNa(vals))

AggNUnique(vals) == FromInt(NUnique(vals))

\* (x < 0).sum()
AggNegative(vals) == FromInt(Cardinality({k \in 1..Len(vals) : FGt(Zero, vals[k])}))

\* 'first': the first non-missing value
AggFirst(vals) == IF Len(DropNa(vals)) = 0 THEN NaN ELSE Head(DropNa(vals))

\* student_assess.merge(assessments, on=[id_assessment, code_module,
\* code_presentation], how='left'): the assessment's date joins each submission
RECURSIVE MergeAssessments(_, _)
MergeAssessments(student_assess, assessments) ==
    IF Len(student_assess) = 0 THEN <<>>
    ELSE LET sa == Head(student_assess)
             hits == SelectSeq(assessments,
                         LAMBDA a : /\ a.id_assessment = sa.id_assessment
                                    /\ a.code_module = sa.code_module
                                    /\ a.code_presentation = sa.code_presentation)
             ext(date) == [id_student |-> sa.id_student, code_module |-> sa.code_module,
                           code_presentation |-> sa.code_presentation,
                           score |-> sa.score, date |-> date]
             out == IF Len(hits) = 0 THEN <<ext(NaN)>>
                    ELSE [j \in 1..Len(hits) |-> ext(hits[j].date)]
         IN out \o MergeAssessments(Tail(student_assess), assessments)

AssessCols ==
    <<"avg_score", "score_std", "min_score", "max_score", "num_assessments",
      "num_late_submissions">>

aggregate_assessment_features(d) ==
    LET assess_merged == MergeAssessments(d.studentAssessment, d.assessments)
    IN {[key |-> k,
         vals |-> LET score == Field(Group(assess_merged, k), "score")
                      date == Field(Group(assess_merged, k), "date")
                  IN [c \in Range(AssessCols) |->
                        IF c = "avg_score" THEN GroupMean(score)
                        ELSE IF c = "score_std" THEN GroupStd(score)
                        ELSE IF c = "min_score" THEN SeriesMin(score)
                        ELSE IF c = "max_score" THEN SeriesMax(score)
                        ELSE IF c = "num_assessments" THEN AggCount(score)
                        ELSE AggNegative(date)]] : k \in EvKeys(assess_merged)}

VleCols ==
    <<"total_clicks", "avg_clicks_per_day", "std_clicks", "max_clicks_per_day",
      "first_vle_access", "last_vle_access", "num_days_active",
      "num_unique_resources", "engagement_duration">>

aggregate_vle_features(d) ==
    {[key |-> k,
      vals |-> LET click == Field(Group(d.studentVle, k), "sum_click")
                   date == Field(Group(d.studentVle, k), "date")
                   site == Field(Group(d.studentVle, k), "id_site")
               IN [c \in Range(VleCols) |->
                     IF c = "total_clicks" THEN AggSum(click)
                     ELSE IF c = "avg_clicks_per_day" THEN GroupMean(click)
                     ELSE IF c = "std_clicks" THEN GroupStd(click)
                     ELSE IF c = "max_clicks_per_day" THEN SeriesMax(click)
                     ELSE IF c = "first_vle_access" THEN SeriesMin(date)
                     ELSE IF c = "last_vle_access" THEN SeriesMax(date)
                     ELSE IF c = "num_days_active" THEN AggCount(date)
                     ELSE IF c = "num_unique_resources" THEN AggNUnique(site)
                     ELSE FSub(SeriesMax(date), SeriesMin(date))]] :
        k \in EvKeys(d.studentVle)}

RegCols == <<"registration_date", "num_unregistrations">>

aggregate_registration_features(d) ==
    {[key |-> k,
      vals |-> LET reg == Field(Group(d.studentRegistration, k), "date_registration")
                   unreg == Field(Group(d.studentRegistration, k), "date_unregistration")
               IN [c \in Range(RegCols) |->
                     IF c = "registration_date" THEN AggFirst(reg)
                     ELSE AggCount(unreg)]] :
        k \in EvKeys(d.studentRegistration)}

\* ------------------------------------------------------------------------
\* OULADPreprocessor.merge_all_tables
\* ------------------------------------------------------------------------
\* variant: how='inner', rows without a matching feature row are dropped
RECURSIVE MergeFeatureRows_inner(_, _, _)
MergeFeatureRows_inner(rows, feats, cols) ==
    IF Len(rows) = 0 THEN <<>>
    ELSE LET r == Head(rows)
             hits == SetToSeq({x \in feats : x.key = RowKey(r)})
         IN [j \in 1..Len(hits) |->
                [r EXCEPT !.num = [c \in Range(cols) |-> hits[j].vals[c]] @@ @]]
            \o MergeFeatureRows_inner(Tail(rows), feats, cols)

\* merged.merge(features, on=[id_student, code_module, code_presentation],
\* how='left')
RECURSIVE MergeFeatureRows(_, _, _)
MergeFeatureRows(rows, feats, cols) ==
    IF Len(rows) = 0 THEN <<>>
    ELSE LET r == Head(rows)
             hits == SetToSeq({x \in feats : x.key = RowKey(r)})
             ext(vals) == [r EXCEPT !.num = [c \in Range(cols) |-> vals[c]] @@ @]
             out == IF Len(hits) = 0 THEN <<ext([c \in Range(cols) |-> NaN])>>
                    ELSE [j \in 1..Len(hits) |-> ext(hits[j].vals)]
         IN out \o MergeFeatureRows(Tail(rows), feats, cols)

MergeFeatures(t, feats, cols) ==
    [cols |-> t.cols \o cols,
     num  |-> t.num \cup Range(cols),
     rows |-> MergeFeatureRows(t.rows, feats, cols)]

\* merged[numeric_cols] = merged[numeric_cols].fillna(0)
FillNumeric(t) ==
    [t EXCEPT !.rows = [i \in 1..Len(@) |->
        [@[i] EXCEPT !.num = [c \in DOMAIN @ |-> IF IsNaN(@[c]) THEN Zero ELSE @[c]]]]]

merge_all_tables(d) ==
    LET student_info == create_target_variable(d.studentInfo)
        m1 == MergeFeatures(student_info, aggregate_assessment_features(d), AssessCols)
        m2 == MergeFeatures(m1, aggregate_vle_features(d), VleCols)
        m3 == MergeFeatures(m2, aggregate_registration_features(d), RegCols)
    IN FillNumeric(m3)

\* engineer_features: encode, derive, standardize with the default list
engineer_features(t) ==
    apply_zscore_standardization(
        create_derived_features(encode_categorical_features(t)), NoFn,
        default_features)

NoData ==
    [studentInfo |-> EmptyTable, studentAssessment |-> <<>>, assessments |-> <<>>,
     studentVle |-> <<>>, studentRegistration |-> <<>>]

\* ------------------------------------------------------------------------
\* ModelTrainer: candidate models, cross-validation summary, selection
\* ------------------------------------------------------------------------
\* XGBOOST_AVAILABLE is False on both branches of the import guard
XGBOOST_AVAILABLE(installed) == IF installed THEN FALSE ELSE FALSE

CATBOOST_AVAILABLE(installed) == IF installed THEN TRUE ELSE FALSE

Model(name, fitted) == [name |-> name, fitted |-> fitted]

\* the models dict, in insertion order, every estimator new and unfitted
initialize_models(catboost, xgboost) ==
    <<Model("Logistic Regression", FALSE), Model("Random Forest", FALSE)>>
    \o (IF CATBOOST_AVAILABLE(catboost) THEN <<Model("CatBoost", FALSE)>> ELSE <<>>)
    \o (IF XGBOOST_AVAILABLE(xgboost) THEN <<Model("XGBoost", FALSE)>> ELSE <<>>)
    \o <<Model("SVM", FALSE)>>

scoring == <<"accuracy", "precision", "recall", "f1", "auc">>

\* np.add.reduce over a short array: res = 0; res += a[i] from the first
\* element to the last
RECURSIVE NpSum(_, _)
NpSum(scores, res) ==
    IF Len(scores) = 0 THEN res ELSE NpSum(Tail(scores), FAdd(res, Head(scores)))

\* a mean that counts the first fold twice
NpMean_first_twice(scores) ==
    FDiv(FAdd(NpSum(scores, Zero), scores[1]), FromInt(Len(scores) + 1))

\* ndarray.mean(): a missing fold score makes the mean missing
NpMean(scores) == FDiv(NpSum(scores, Zero), FromInt(Len(scores)))

SquaredDev(scores, mean) ==
    [k \in 1..Len(scores) |-> FMul(FSub(scores[k], mean), FSub(scores[k], mean))]

\* ndarray.std(): sqrt(mean(|x - mean|^2))
NpStd(scores) == FSqrt(NpMean(SquaredDev(scores, NpMean(scores))))

\* results[model_name]: mean and std of every metric's test scores
Summary(cv_results) ==
    [key \in Range(scoring) \cup {m \o "_std" : m \in Range(scoring)} |->
        IF key \in Range(scoring) THEN NpMean(cv_results[key])
        ELSE NpStd(cv_results[SubSeq(key, 1, Len(key) - 4)])]

\* the loop of train_with_cross_validation over self.models.items()
CrossValidate(ms, cv) ==
    [k \in 1..Len(ms) |-> [name |-> ms[k].name, metrics |-> Summary(cv[ms[k].name])]]

\* for model_name, metrics in self.results.items():
\*     if metrics[metric] > best_score: ...
RECURSIVE BestLoop(_, _, _, _)
BestLoop(items, metric, best_score, best_name) ==
    IF Len(items) = 0 THEN <<best_score, best_name>>
    ELSE IF FGt(Head(items).metrics[metric], best_score)
         THEN BestLoop(Tail(items), metric, Head(items).metrics[metric], Head(items).name)
         ELSE BestLoop(Tail(items), metric, best_score, best_name)

ModelNames(ms) == {ms[k].name : k \in 1..Len(ms)}

\* best_model.fit(X, y) on the dict's own estimator
FitModel(ms, name) ==
    [k \in 1..Len(ms) |-> IF ms[k].name = name THEN Model(name, TRUE) ELSE ms[k]]

NoModel == Model("None", FALSE)

\* select_best_model(metric): the trainer fields after the call, what it
\* returns and what it raises
SelectOutcome(tr, best) ==
    IF best[2] \notin ModelNames(tr.models)
    THEN [tr EXCEPT !.call = "select_best_model", !.returned = <<>>,
                    !.exc = "KeyError"]
    ELSE [tr EXCEPT !.call = "select_best_model",
                    !.models = FitModel(tr.models, best[2]),
                    !.best_model = Model(best[2], TRUE),
                    !.best_model_name = best[2],
                    !.returned = <<best[2], Model(best[2], TRUE)>>,
                    !.exc = "none"]

select_best_model(tr, metric) ==
    IF Len(tr.results) = 0
    THEN [tr EXCEPT !.call = "select_best_model", !.returned = <<>>,
                    !.exc = "ValueError"]
    ELSE SelectOutcome(tr, BestLoop(tr.results, metric, FromInt(-1), "None"))

\* get_results_dataframe(): the index of the returned frame (one row per
\* entry of results; the order of the rows is left open)
get_results_dataframe(tr) ==
    IF Len(tr.results) = 0
    THEN [tr EXCEPT !.call = "get_results_dataframe", !.returned = <<>>,
                    !.exc = "ValueError"]
    ELSE [tr EXCEPT !.call = "get_results_dataframe",
                    !.returned = <<{tr.results[k].name : k \in 1..Len(tr.results)}>>,
                    !.exc = "none"]

NoFile == [model |-> NoModel, model_name |-> "None", results |-> <<>>]

\* save_model(model_path): the file written by joblib.dump
save_model(tr) ==
    IF tr.best_model = NoModel
    THEN [tr EXCEPT !.call = "save_model", !.returned = <<>>, !.exc = "ValueError"]
    ELSE [tr EXCEPT !.call = "save_model",
                    !.saved = [model |-> tr.best_model,
                               model_name |-> tr.best_model_name,
                               results |-> tr.results],
                    !.returned = <<>>, !.exc = "none"]

\* ModelTrainer(X, y): a new trainer beside the file on disk
NewTrainer(file) ==
    [models |-> <<>>, results |-> <<>>, best_model |-> NoModel,
     best_model_name |-> "None", call |-> "none", returned |-> <<>>,
     saved |-> file, exc |-> "none"]

train_with_cross_validation(tr, catboost, xgboost, cv) ==
    IF Len(tr.models) = 0
    THEN [tr EXCEPT !.call = "train_with_cross_validation",
                    !.models = initialize_models(catboost, xgboost),
                    !.results = CrossValidate(initialize_models(catboost, xgboost), cv),
                    !.returned = <<>>, !.exc = "none"]
    ELSE [tr EXCEPT !.call = "train_with_cross_validation",
                    !.results = CrossValidate(tr.models, cv),
                    !.returned = <<>>, !.exc = "none"]

\* train_models: select_best_model, then save_model unless it raised
SelectAndSave(tr) ==
    IF tr.exc # "none" THEN [tr EXCEPT !.call = "train_models"]
    ELSE [save_model(tr) EXCEPT !.call = "train_models", !.returned = <<tr.best_model>>]

train_models(file, catboost, xgboost, cv) ==
    SelectAndSave(select_best_model(
        train_with_cross_validation(
            [NewTrainer(file) EXCEPT !.models = initialize_models(catboost, xgboost)],
            catboost, xgboost, cv), "f1"))

\* ------------------------------------------------------------------------
\* CounterfactualGenerator
\* ------------------------------------------------------------------------
actionable_keywords ==
    <<"score", "click", "vle", "resource", "submission", "engagement", "active",
      "diversity">>

\* '_z' in f and any(keyword in f for keyword in [...])
IsActionable(f) == Contains("_z", f) /\ AnyIn(Range(actionable_keywords), f)

get_actionable_features(names) == SelectSeq(names, IsActionable)

\* a features_to_vary argument: None, or a list of names
NoneArg == [given |-> FALSE, list |-> <<>>]

ListArg(list) == [given |-> TRUE, list |-> list]

\* features_to_vary if features_to_vary else 'all': None and [] are both falsy
DiceFeaturesToVary(arg) ==
    IF arg.given /\ Len(arg.list) > 0 THEN [all |-> FALSE, list |-> arg.list]
    ELSE [all |-> TRUE, list |-> <<>>]

\* the features the explainer may change: every feature for 'all'
Varied(names, vary) == IF vary.all THEN Range(names) ELSE Range(vary.list) \cap Range(names)

\* explainer.generate_counterfactuals: the outcomes of the search, a raised
\* exception or at most MaxCFs rows that keep every feature outside
\* features_to_vary at the instance's value
DiceOutcomes(instance, names, vary) ==
    {[raised |-> TRUE, final_cfs_df |-> <<>>]} \cup
    {[raised |-> FALSE, final_cfs_df |-> cfs] :
        cfs \in UNION {[1..n -> {row \in [Range(names) -> {Zero, One}] :
                                    \A f \in Range(names) \ Varied(names, vary) :
                                        row[f] = instance[f]}] : n \in 0..MaxCFs}}

FAbs(a) == IF IsNaN(a) THEN NaN ELSE <<Abs(a[1]), a[2]>>

\* abs(cf_val - original_val) > 1e-6
Changed(cf_row, instance, f) == FGt(FAbs(FSub(cf_row[f], instance[f])), MicroEps)

FeatureChanges(cf_row, instance, names) ==
    [f \in {g \in Range(names) : Changed(cf_row, instance, g)} |->
        [original |-> instance[f], counterfactual |-> cf_row[f],
         change |-> FSub(cf_row[f], instance[f])]]

\* the dictionary generate_counterfactuals returns for one search outcome
CounterfactualResult(instance, names, outcome) ==
    IF outcome.raised \/ Len(outcome.final_cfs_df) = 0
    THEN [found |-> FALSE, original_instance |-> instance, counterfactuals |-> <<>>]
    ELSE [found |-> TRUE, original_instance |-> instance,
          counterfactuals |->
              [k \in 1..Len(outcome.final_cfs_df) |->
                  [counterfactual_values |-> outcome.final_cfs_df[k],
                   changes |-> FeatureChanges(outcome.final_cfs_df[k], instance, names)]]]

\* ------------------------------------------------------------------------
\* LLMAdvisor: a response text is a sequence of tokens, a dict a function
\* ------------------------------------------------------------------------
\* the markdown fences of a response: three backquotes, written ~~~ here
FenceJson == "~~~json"

Fence == "~~~"

\* JSON values a response may carry: two objects, an array and a number
JsonObjects == {"{}", "{success: false}"}

JsonValues == JsonObjects \cup {"[]", "5"}

ResponseTokens == {FenceJson, Fence, " ", "x"} \cup JsonValues

\* position of the first token of text that contains the separator, or 0
RECURSIVE Find(_, _, _)
Find(text, seps, i) ==
    IF i > Len(text) THEN 0 ELSE IF text[i] \in seps THEN i ELSE Find(text, seps, i + 1)

\* text.split(sep)[1] for a text that contains sep: between its first two sep
SplitSecond(text, seps, first) ==
    IF Find(text, seps, first + 1) = 0 THEN SubSeq(text, first + 1, Len(text))
    ELSE SubSeq(text, first + 1, Find(text, seps, first + 1) - 1)

\* text.split(sep)[0]
SplitFirst(text, seps) ==
    IF Find(text, seps, 1) = 0 THEN text ELSE SubSeq(text, 1, Find(text, seps, 1) - 1)

RECURSIVE LStrip(_)
LStrip(text) == IF Len(text) > 0 /\ Head(text) = " " THEN LStrip(Tail(text)) ELSE text

RECURSIVE RStrip(_)
RStrip(text) ==
    IF Len(text) > 0 /\ text[Len(text)] = " " THEN RStrip(SubSeq(text, 1, Len(text) - 1))
    ELSE text

\* the json_str of generate_advice; the json fence contains the plain fence
json_str(text) ==
    IF FenceJson \in Range(text)
    THEN RStrip(LStrip(SplitFirst(SplitSecond(text, {FenceJson}, Find(text, {FenceJson}, 1)),
                                  {Fence, FenceJson})))
    ELSE IF Fence \in Range(text)
    THEN RStrip(LStrip(SplitFirst(SplitSecond(text, {Fence}, Find(text, {Fence}, 1)),
                                  {Fence})))
    ELSE RStrip(LStrip(text))

NotSpace(t) == t # " "

\* json.loads: one JSON value between whitespace, else JSONDecodeError
json_loads(s) ==
    IF Len(SelectSeq(s, NotSpace)) = 1 /\ SelectSeq(s, NotSpace)[1] \in JsonValues
    THEN [ok |-> TRUE, value |-> SelectSeq(s, NotSpace)[1]]
    ELSE [ok |-> FALSE, value |-> "JSONDecodeError"]

\* the dict a JSON object decodes to
ObjectDict(value) ==
    IF value = "{success: false}" THEN [success |-> FALSE] ELSE <<>>

\* the dict of the handler "except Exception as e"
ErrorDict(e) == [success |-> FALSE, error |-> e, summary |-> "Failed to generate advice"]

\* response_text[:200] + '...' if len(response_text) > 200 else response_text
Summary200(text) == IF Len(text) > 200 THEN SubSeq(text, 1, 200) \o <<"...">> ELSE text

\* variant: the raw-text dict also reports success
ParseResponse_raw_success(text, loaded) ==
    IF ~loaded.ok
    THEN [success |-> TRUE, raw_response |-> text, summary |-> Summary200(text)]
    ELSE IF loaded.value \in JsonObjects
    THEN [raw_response |-> text, success |-> TRUE] @@ ObjectDict(loaded.value)
    ELSE ErrorDict("TypeError")

\* advice of a response text: the decoded object with raw_response and
\* success set, the raw text on JSONDecodeError, the error dict when the
\* decoded value takes no item assignment (TypeError)
ParseResponse(text, loaded) ==
    IF ~loaded.ok
    THEN [success |-> FALSE, raw_response |-> text, summary |-> Summary200(text)]
    ELSE IF loaded.value \in JsonObjects
    THEN [raw_response |-> text, success |-> TRUE] @@ ObjectDict(loaded.value)
    ELSE ErrorDict("TypeError")

\* json.dumps of create_prompt: TypeError on a value that is no JSON type
Serializable(d) == \A k \in DOMAIN d : d[k] # "numpy.int64"

\* variant: a failed API call is made a second time
generate_advice_retry(student_data, counterfactual_changes, outcome) ==
    IF ~(Serializable(student_data) /\ Serializable(counterfactual_changes))
    THEN [advice |-> ErrorDict("TypeError"), calls |-> 0]
    ELSE IF outcome.raised
    THEN [advice |-> ErrorDict("APIError"), calls |-> 2]
    ELSE [advice |-> ParseResponse(outcome.text, json_loads(json_str(outcome.text))),
          calls |-> 1]

\* generate_advice(student_data, counterfactual_changes) when the API answers
\* with outcome: the dict returned and the number of generate_content calls
generate_advice(student_data, counterfactual_changes, outcome) ==
    IF ~(Serializable(student_data) /\ Serializable(counterfactual_changes))
    THEN [advice |-> ErrorDict("TypeError"), calls |-> 0]
    ELSE IF outcome.raised
    THEN [advice |-> ErrorDict("APIError"), calls |-> 1]
    ELSE [advice |-> ParseResponse(outcome.text, json_loads(json_str(outcome.text))),
          calls |-> 1]

\* student.get(key, default)
DictGet(d, key, default) == IF key \in DOMAIN d THEN d[key] ELSE default

\* changes of the first counterfactual, if any
FirstChanges(cf_changes) ==
    IF Len(cf_changes) > 0 THEN DictGet(cf_changes[1], "changes", <<>>) ELSE <<>>

\* the body of the loop of generate_batch_advice for student i (from 0)
BatchStep(student, i, outcome) ==
    [advice |->
        [student_idx |-> DictGet(student, "instance_idx", i)]
        @@ generate_advice(DictGet(student, "original_instance", <<>>),
                           FirstChanges(DictGet(student, "counterfactuals", <<>>)),
                           outcome).advice,
     calls |->
        generate_advice(DictGet(student, "original_instance", <<>>),
                        FirstChanges(DictGet(student, "counterfactuals", <<>>)),
                        outcome).calls]

\* generate_batch_advice(students_data) when the API answers the i-th
\* student's call with outcomes[i]
generate_batch_advice(students_data, outcomes) ==
    [i \in 1..Len(students_data) |-> BatchStep(students_data[i], i - 1, outcomes[i])]

\* ------------------------------------------------------------------------
\* SHAPExplainer and AnchorExplainer: x holds the environment (libraries
\* installed, what the library calls do) and the explainer object
\* ------------------------------------------------------------------------
\* create_explainer(use_tree_explainer): nothing without SHAP; TreeExplainer
\* or, when it raises or is not asked for, KernelExplainer, whose exception
\* in the handler propagates
create_explainer(x, use_tree_explainer) ==
    IF ~x.SHAP_AVAILABLE
    THEN [x EXCEPT !.returned = <<"None">>, !.exc = "none"]
    ELSE IF use_tree_explainer /\ x.tree_ok
    THEN [x EXCEPT !.explainer = "TreeExplainer", !.returned = <<"None">>, !.exc = "none"]
    ELSE IF x.kernel_ok
    THEN [x EXCEPT !.explainer = "KernelExplainer", !.returned = <<"None">>,
                   !.exc = "none"]
    ELSE [x EXCEPT !.returned = <<>>, !.exc = "Exception"]

\* the try block of calculate_shap_values: self.explainer.shap_values(X),
\* every exception logged and raised again
ShapValues(x) ==
    IF x.exc # "none" THEN x
    ELSE IF x.explainer = "None"
    THEN [x EXCEPT !.returned = <<>>, !.exc = "AttributeError"]
    ELSE IF ~x.values_ok
    THEN [x EXCEPT !.returned = <<>>, !.exc = "Exception"]
    ELSE [x EXCEPT !.shap_values = "values", !.returned = <<"values">>, !.exc = "none"]

calculate_shap_values(x) ==
    ShapValues(IF x.explainer = "None" THEN create_explainer(x, TRUE)
               ELSE [x EXCEPT !.exc = "none"])

\* plot_summary and plot_feature_importance: plt is not defined without
\* matplotlib
Plots(x) ==
    IF x.exc # "none" THEN x
    ELSE IF ~x.MATPLOTLIB_AVAILABLE
    THEN [x EXCEPT !.returned = <<>>, !.exc = "NameError"]
    ELSE [x EXCEPT !.returned = <<"explainer", "importance_df">>, !.exc = "none"]

\* explain_model_globally(model, X, feature_names) with its own SHAPExplainer
explain_model_globally(x) ==
    IF ~x.SHAP_AVAILABLE
    THEN [x EXCEPT !.returned = <<"None", "None">>, !.exc = "none"]
    ELSE Plots(calculate_shap_values([x EXCEPT !.explainer = "None",
                                               !.shap_values = "None"]))

\* importing anchor_explainer and generate_anchor_explanations: the import of
\* anchor is unguarded, create_explainer runs outside explain_instance's try
generate_anchor_explanations(x) ==
    IF ~x.anchor_installed
    THEN [x EXCEPT !.returned = <<>>, !.exc = "ImportError"]
    ELSE IF ~x.any_atrisk
    THEN [x EXCEPT !.returned = <<"[]">>, !.exc = "none"]
    ELSE IF ~x.anchor_ok
    THEN [x EXCEPT !.returned = <<>>, !.exc = "Exception"]
    ELSE [x EXCEPT !.returned = <<"explanations">>, !.exc = "none"]

\* ------------------------------------------------------------------------
\* State
\* ------------------------------------------------------------------------
VARIABLES
    df,               \* FeatureEngineer.df
    label_encoders,   \* FeatureEngineer.label_encoders: column -> classes
    z_score_params,   \* FeatureEngineer.z_score_params: feature -> columns
    final_df,         \* table returned by prepare_modeling_data
    valid_features,   \* feature list returned by prepare_modeling_data
    features_arg,     \* features_to_standardize of the last z-score call
    raw_value,        \* results of convert_zscore_to_raw: feature -> row -> value
    stage,            \* position of the run
    exc,              \* exception raised by the last operation, or "none"
    data,             \* OULADLoader.data / OULADPreprocessor.data: the raw tables
    loader_df,        \* table returned by OULADLoader.create_target_variable
    merged_df,        \* table returned by merge_all_tables
    catboost_installed,     \* whether "from catboost import ..." succeeds
    xgboost_installed,      \* whether "from xgboost import ..." succeeds
    trainer,          \* ModelTrainer: models, results, best_model, best_model_name,
                      \* with the last call, its return value and exception, and
                      \* the file written by save_model
    feature_names,    \* CounterfactualGenerator.feature_names
    y_pred,           \* the model's predictions for the test students
    n_students,       \* n_students of the counterfactual call
    explainer,        \* CounterfactualGenerator.explainer
    actionable_features,    \* result of get_actionable_features, once called
    dice_features_to_vary,  \* features_to_vary of the last explainer call
    counterfactuals,  \* list returned by generate_for_atrisk_students
    cf_stage,         \* position of the counterfactual run
    cf_exc,           \* exception the last counterfactual call let escape, or "none"
    advisor,          \* LLMAdvisor run: the API's answers, calls made, advice returned
    xai,              \* explanation run: libraries, explainers, what the callers received
    runs,             \* two model-selection runs on the same data and seed
    agg,              \* metric aggregation of one model's fold scores
    pipeline,         \* run_pipeline: position, stage log, files written
    load,             \* load_oulad_data / preprocess_oulad_data on a data directory
    cold,             \* ColdStartHandler: historical data, model, last prediction
    proto,            \* ProtoNet: prototypes, last support set, last predictions
    accounts,         \* students table and the results of the account calls
    quiz,             \* quizzes, quiz_attempts and the requests in flight
    forum,            \* forum_votes
    progress          \* student_progress, lessons and quiz_results

feVars == <<df, label_encoders, z_score_params, final_df, valid_features,
            features_arg, raw_value, stage, exc>>

prepVars == <<data, loader_df, merged_df>>

trainVars == <<catboost_installed, xgboost_installed, trainer>>

cfVars == <<feature_names, y_pred, n_students, explainer, actionable_features,
            dice_features_to_vary, counterfactuals, cf_stage, cf_exc>>

extVars == <<advisor, xai, runs, agg, pipeline, load>>

appVars == <<cold, proto, accounts, quiz, forum, progress>>

vars == <<feVars, prepVars, trainVars, cfVars, extVars, appVars>>

\* the parts of the state a run does not use
FEIdle ==
    /\ df = EmptyTable
    /\ label_encoders = NoFn
    /\ z_score_params = NoFn
    /\ final_df = EmptyTable
    /\ valid_features = <<>>
    /\ features_arg = <<>>
    /\ raw_value = NoFn
    /\ stage = "idle"
    /\ exc = "none"

PrepIdle ==
    /\ data = NoData
    /\ loader_df = EmptyTable
    /\ merged_df = EmptyTable

TrainIdle ==
    /\ catboost_installed = FALSE
    /\ xgboost_installed = FALSE
    /\ trainer = NewTrainer(NoFile)

CFIdle ==
    /\ feature_names = <<>>
    /\ y_pred = <<>>
    /\ n_students = 0
    /\ cf_exc = "none"
    /\ explainer = "None"
    /\ actionable_features = NoneArg
    /\ dice_features_to_vary = NoneArg
    /\ counterfactuals = <<>>
    /\ cf_stage = "idle"

AppIdle ==
    /\ cold = [stage |-> "idle"]
    /\ proto = [stage |-> "idle"]
    /\ accounts = [stage |-> "idle"]
    /\ quiz = [stage |-> "idle"]
    /\ forum = [stage |-> "idle"]
    /\ progress = [stage |-> "idle"]

ExtIdle ==
    /\ advisor = [stage |-> "idle"]
    /\ xai = [stage |-> "idle"]
    /\ runs = [stage |-> "idle"]
    /\ agg = [stage |-> "idle"]
    /\ pipeline = [stage |-> "idle"]
    /\ load = [stage |-> "idle"]

\* ------------------------------------------------------------------------
\* Input tables of the feature-engineering run
\* ------------------------------------------------------------------------
CohortA == <<"AAA", "2013J">>
CohortB == <<"AAA", "2014J">>
CohortC == <<"BBB", "2013J">>

\* the first row is in cohort A; later rows share it or open another cohort
RowCohorts(i) ==
    IF i = 1 THEN {CohortA}
    ELSE IF i % 2 = 0 THEN {CohortA, CohortB} ELSE {CohortA, CohortC}

\* (avg_score, activity profile) of a row
ScoreProfiles ==
    {<<NaN, 1>>, <<FromInt(1), 1>>, <<FromInt(1), 2>>, <<FromInt(3), 2>>}

\* two activity profiles: an inactive failing student, an active passing one
Profile(p) ==
    IF p = 1
    THEN [gender |-> "F", final_result |-> "Fail", is_at_risk |-> 1,
          num_assessments |-> 1, total_clicks |-> 0, num_days_active |-> 0,
          num_unique_resources |-> 0, first_vle_access |-> 9,
          num_late_submissions |-> 0, num_unregistrations |-> 1]
    ELSE [gender |-> "M", final_result |-> "Pass", is_at_risk |-> 0,
          num_assessments |-> 2, total_clicks |-> 3, num_days_active |-> 2,
          num_unique_resources |-> 2, first_vle_access |-> 3,
          num_late_submissions |-> 1, num_unregistrations |-> 0]

RawNumCols ==
    <<"avg_score", "num_assessments", "total_clicks", "num_days_active",
      "num_unique_resources", "first_vle_access", "num_late_submissions",
      "num_unregistrations">>

InputCols ==
    <<"id_student", "code_module", "code_presentation", "gender",
      "final_result", "is_at_risk">> \o RawNumCols

MkRow(i, cohort, score, p) ==
    [cat |-> [c \in {"code_module", "code_presentation", "gender", "final_result"} |->
                 IF c = "code_module" THEN cohort[1]
                 ELSE IF c = "code_presentation" THEN cohort[2]
                 ELSE IF c = "gender" THEN Profile(p).gender
                 ELSE Profile(p).final_result],
     num |-> [c \in {"id_student", "is_at_risk"} \cup Range(RawNumCols) |->
                 IF c = "id_student" THEN FromInt(i)
                 ELSE IF c = "is_at_risk" THEN FromInt(Profile(p).is_at_risk)
                 ELSE IF c = "avg_score" THEN score
                 ELSE FromInt(Profile(p)[c])]]

RowChoices == (UNION {RowCohorts(i) : i \in 1..MaxRows}) \X ScoreProfiles

InputTables ==
    {[cols |-> InputCols,
      num  |-> {"id_student", "is_at_risk"} \cup Range(RawNumCols),
      rows |-> [i \in 1..MaxRows |-> MkRow(i, ch[i][1], ch[i][2][1], ch[i][2][2])]] :
        ch \in {c \in [1..MaxRows -> RowChoices] :
                    \A i \in 1..MaxRows : c[i][1] \in RowCohorts(i)}}

\* feature lists passed to apply_zscore_standardization (None = the default)
FeatureLists ==
    {default_features, <<"avg_score", "max_score">>, <<"max_score", "total_clicks">>}

\* ------------------------------------------------------------------------
\* Feature-engineering run: FeatureEngineer(df), then the calls of
\* engineer_features, prepare_modeling_data and convert_zscore_to_raw
\* ------------------------------------------------------------------------
InitFE ==
    /\ df \in InputTables
    /\ label_encoders = NoFn
    /\ z_score_params = NoFn
    /\ final_df = EmptyTable
    /\ valid_features = <<>>
    /\ features_arg = <<>>
    /\ raw_value = NoFn
    /\ stage = "new"
    /\ exc = "none"
    /\ PrepIdle
    /\ TrainIdle
    /\ CFIdle
    /\ ExtIdle
    /\ AppIdle

EncodeCategoricalFeatures ==
    /\ stage = "new"
    /\ df' = encode_categorical_features(df)
    /\ label_encoders' =
          [col \in Range(categorical_cols) \cap Range(df.cols) |->
              {df.rows[i].cat[col] : i \in 1..NRows(df)}]
    /\ stage' = "encoded"
    /\ UNCHANGED <<z_score_params, final_df, valid_features, features_arg,
                   raw_value, exc, prepVars, trainVars, cfVars, extVars, appVars>>

CreateDerivedFeatures ==
    /\ stage = "encoded"
    /\ df' = create_derived_features(df)
    /\ stage' = "derived"
    /\ UNCHANGED <<label_encoders, z_score_params, final_df, valid_features,
                   features_arg, raw_value, exc, prepVars, trainVars, cfVars, extVars, appVars>>

ApplyZscoreStandardization ==
    /\ stage = "derived"
    /\ \E features \in FeatureLists :
          \E r \in {apply_zscore_standardization(df, z_score_params, features)} :
             /\ df' = r.df
             /\ z_score_params' = r.z_score_params
             /\ exc' = r.exc
             /\ features_arg' = features
             /\ stage' = IF r.exc = "none" THEN "zscored" ELSE "failed"
    /\ UNCHANGED <<label_encoders, final_df, valid_features, raw_value,
                   prepVars, trainVars, cfVars, extVars, appVars>>

PrepareModelingData ==
    /\ stage = "zscored"
    /\ \E r \in {prepare_modeling_data(df)} :
          /\ final_df' = r.final_df
          /\ valid_features' = r.valid_features
          /\ exc' = r.exc
          /\ stage' = IF r.exc = "none" THEN "prepared" ELSE "failed"
    /\ UNCHANGED <<df, label_encoders, z_score_params, features_arg, raw_value,
                   prepVars, trainVars, cfVars, extVars, appVars>>

\* convert_zscore_to_raw applied to every row's z-score of every standardized
\* feature, with the cohort mean and std stored beside it
ConvertZscoreToRaw ==
    /\ stage = "prepared"
    /\ raw_value = NoFn
    /\ DOMAIN z_score_params # {}
    /\ raw_value' =
          [f \in DOMAIN z_score_params |->
              [i \in 1..NRows(df) |->
                  convert_zscore_to_raw(
                      df.rows[i].num[f \o "_z"],
                      df.rows[i].num[z_score_params[f].mean_col],
                      df.rows[i].num[z_score_params[f].std_col])]]
    /\ UNCHANGED <<df, label_encoders, z_score_params, final_df, valid_features,
                   features_arg, stage, exc, prepVars, trainVars, cfVars, extVars, appVars>>

NextFE ==
    \/ EncodeCategoricalFeatures
    \/ CreateDerivedFeatures
    \/ ApplyZscoreStandardization
    \/ PrepareModelingData
    \/ ConvertZscoreToRaw

SpecFE == InitFE /\ [][NextFE]_vars

\* ------------------------------------------------------------------------
\* Raw OULAD tables of the preprocessing run
\* ------------------------------------------------------------------------
\* the first student carries any final_result, missing included ("nan")
FinalResults(i) ==
    IF i = 1 THEN {"Pass", "Fail", "Withdrawn", "Distinction", "nan"}
    ELSE {"Pass", "Withdrawn"}

\* later rows may repeat the first student's id and may open cohort B
StudentIds(i) == {1, i}

StudentChoices(i) ==
    StudentIds(i) \X RowCohorts(IF i = 1 THEN 1 ELSE 2) \X FinalResults(i)

MkStudent(id, cohort, final_result) ==
    [cat |-> [c \in {"code_module", "code_presentation", "gender", "final_result"} |->
                 IF c = "code_module" THEN cohort[1]
                 ELSE IF c = "code_presentation" THEN cohort[2]
                 ELSE IF c = "gender" THEN (IF id = 1 THEN "F" ELSE "M")
                 ELSE final_result],
     num |-> [c \in {"id_student"} |-> FromInt(id)]]

StudentInfoTables ==
    {[cols |-> <<"code_module", "code_presentation", "id_student", "gender",
                 "final_result">>,
      num  |-> {"id_student"},
      rows |-> [i \in 1..MaxStudents |-> MkStudent(ch[i][1], ch[i][2], ch[i][3])]] :
        ch \in {c \in [1..MaxStudents -> UNION {StudentChoices(i) : i \in 1..MaxStudents}] :
                    \A i \in 1..MaxStudents : c[i] \in StudentChoices(i)}}

Submission(id, cohort, assessment, score) ==
    [id_student |-> FromInt(id), code_module |-> cohort[1],
     code_presentation |-> cohort[2], id_assessment |-> assessment, score |-> score]

Assessment(assessment, cohort, date) ==
    [id_assessment |-> assessment, code_module |-> cohort[1],
     code_presentation |-> cohort[2], date |-> date]

VleClick(id, cohort, site, date, clicks) ==
    [id_student |-> FromInt(id), code_module |-> cohort[1],
     code_presentation |-> cohort[2], id_site |-> FromInt(site),
     date |-> FromInt(date), sum_click |-> clicks]

Registration(id, cohort, reg, unreg) ==
    [id_student |-> FromInt(id), code_module |-> cohort[1],
     code_presentation |-> cohort[2], date_registration |-> reg,
     date_unregistration |-> unreg]

\* activity tables: none at all; student 1 active in cohort A; both students
\* active, with a repeated assessment row and rows of an unknown student 7
ActivityTables ==
    {[studentAssessment |-> <<>>, assessments |-> <<>>, studentVle |-> <<>>,
      studentRegistration |-> <<>>],
     [studentAssessment |->
          <<Submission(1, CohortA, 1, FromInt(3)), Submission(1, CohortA, 2, NaN),
            Submission(1, CohortA, 9, FromInt(1))>>,
      assessments |->
          <<Assessment(1, CohortA, FromInt(5)), Assessment(2, CohortA, FromInt(-1))>>,
      studentVle |->
          <<VleClick(1, CohortA, 1, 2, FromInt(3)), VleClick(1, CohortA, 1, 4, NaN),
            VleClick(1, CohortA, 2, -2, FromInt(1))>>,
      studentRegistration |-> <<Registration(1, CohortA, FromInt(-5), NaN)>>],
     [studentAssessment |->
          <<Submission(1, CohortA, 1, FromInt(2)), Submission(2, CohortA, 1, FromInt(4)),
            Submission(2, CohortB, 1, FromInt(1)), Submission(7, CohortA, 1, FromInt(5))>>,
      assessments |->
          <<Assessment(1, CohortA, FromInt(-3)), Assessment(1, CohortA, FromInt(-3)),
            Assessment(1, CohortB, FromInt(4))>>,
      studentVle |->
          <<VleClick(2, CohortA, 1, 1, FromInt(2)), VleClick(2, CohortB, 3, 0, FromInt(5)),
            VleClick(7, CohortA, 1, 1, FromInt(1))>>,
      studentRegistration |->
          <<Registration(1, CohortA, NaN, NaN),
            Registration(1, CohortA, FromInt(2), FromInt(6)),
            Registration(2, CohortA, FromInt(0), FromInt(3))>>]}

\* ------------------------------------------------------------------------
\* Preprocessing run: load_oulad_data, then OULADLoader.create_target_variable
\* and preprocess_oulad_data, engineer_features, prepare_modeling_data
\* ------------------------------------------------------------------------
InitPrep ==
    /\ \E info \in StudentInfoTables, act \in ActivityTables :
          data = [studentInfo |-> info] @@ act
    /\ loader_df = EmptyTable
    /\ merged_df = EmptyTable
    /\ df = EmptyTable
    /\ label_encoders = NoFn
    /\ z_score_params = NoFn
    /\ final_df = EmptyTable
    /\ valid_features = <<>>
    /\ features_arg = <<>>
    /\ raw_value = NoFn
    /\ stage = "loaded"
    /\ exc = "none"
    /\ TrainIdle
    /\ CFIdle
    /\ ExtIdle
    /\ AppIdle

LoaderCreateTargetVariable ==
    /\ stage \in {"loaded", "cleaned", "merged"}
    /\ loader_df = EmptyTable
    /\ loader_df' = loader_create_target_variable(data.studentInfo)
    /\ UNCHANGED <<feVars, data, merged_df, trainVars, cfVars, extVars, appVars>>

CleanData ==
    /\ stage = "loaded"
    /\ \E in_place \in BOOLEAN : data' = clean_data(data, in_place)
    /\ stage' = "cleaned"
    /\ UNCHANGED <<df, label_encoders, z_score_params, final_df, valid_features,
                   features_arg, raw_value, exc, loader_df, merged_df, trainVars,
                   cfVars, extVars, appVars>>

MergeAllTables ==
    /\ stage = "cleaned"
    /\ merged_df' = merge_all_tables(data)
    /\ stage' = "merged"
    /\ UNCHANGED <<df, label_encoders, z_score_params, final_df, valid_features,
                   features_arg, raw_value, exc, data, loader_df, trainVars, cfVars, extVars, appVars>>

\* engineer_features(merged_df): FeatureEngineer(merged_df) and its three steps
EngineerFeatures ==
    /\ stage = "merged"
    /\ \E r \in {engineer_features(merged_df)} :
          /\ df' = r.df
          /\ z_score_params' = r.z_score_params
          /\ exc' = r.exc
          /\ stage' = IF r.exc = "none" THEN "zscored" ELSE "failed"
    /\ label_encoders' =
          [col \in Range(categorical_cols) \cap Range(merged_df.cols) |->
              {merged_df.rows[i].cat[col] : i \in 1..NRows(merged_df)}]
    /\ features_arg' = default_features
    /\ UNCHANGED <<final_df, valid_features, raw_value, prepVars, trainVars, cfVars, extVars, appVars>>

NextPrep ==
    \/ LoaderCreateTargetVariable
    \/ CleanData
    \/ MergeAllTables
    \/ EngineerFeatures
    \/ PrepareModelingData

SpecPrep == InitPrep /\ [][NextPrep]_vars

\* ------------------------------------------------------------------------
\* Training run: one ModelTrainer, its methods in any order, and train_models
\* ------------------------------------------------------------------------
\* per-fold test scores of one model: all 0, all 1, mixed, one failed fold
FoldVectors ==
    {[k \in 1..NFolds |-> Zero], [k \in 1..NFolds |-> One],
     [k \in 1..NFolds |-> IF k = 1 THEN Zero ELSE One],
     [k \in 1..NFolds |-> IF k = 1 THEN NaN ELSE One]}

AllModelNames == {"Logistic Regression", "Random Forest", "CatBoost", "XGBoost", "SVM"}

\* cross_validate's test scores: F1 varies per model, the other metrics are 1
CvResults ==
    {[name \in AllModelNames |->
        [m \in Range(scoring) |->
            IF m = "f1" THEN f1[name] ELSE [k \in 1..NFolds |-> One]]] :
        f1 \in [AllModelNames -> FoldVectors]}

InitTrain ==
    /\ catboost_installed \in BOOLEAN
    /\ xgboost_installed \in BOOLEAN
    /\ trainer = NewTrainer(NoFile)
    /\ FEIdle
    /\ PrepIdle
    /\ CFIdle
    /\ ExtIdle
    /\ AppIdle

InitializeModels ==
    /\ trainer' = [trainer EXCEPT
                      !.call = "initialize_models",
                      !.models = initialize_models(catboost_installed, xgboost_installed),
                      !.returned = <<>>, !.exc = "none"]
    /\ UNCHANGED <<catboost_installed, xgboost_installed, feVars, prepVars, cfVars, extVars, appVars>>

\* one cross-validation per trainer
TrainWithCrossValidation ==
    /\ Len(trainer.results) = 0
    /\ \E cv \in CvResults :
          trainer' = train_with_cross_validation(trainer, catboost_installed,
                                                 xgboost_installed, cv)
    /\ UNCHANGED <<catboost_installed, xgboost_installed, feVars, prepVars, cfVars, extVars, appVars>>

SelectBestModel ==
    /\ trainer' = select_best_model(trainer, "f1")
    /\ UNCHANGED <<catboost_installed, xgboost_installed, feVars, prepVars, cfVars, extVars, appVars>>

SaveModel ==
    /\ trainer' = save_model(trainer)
    /\ UNCHANGED <<catboost_installed, xgboost_installed, feVars, prepVars, cfVars, extVars, appVars>>

\* train_models(X, y) with its own trainer, when no trainer has run yet
TrainModels ==
    /\ trainer = NewTrainer(NoFile)
    /\ \E cv \in CvResults :
          trainer' = train_models(trainer.saved, catboost_installed,
                                  xgboost_installed, cv)
    /\ UNCHANGED <<catboost_installed, xgboost_installed, feVars, prepVars, cfVars, extVars, appVars>>

GetResultsDataframe ==
    /\ trainer' = get_results_dataframe(trainer)
    /\ UNCHANGED <<catboost_installed, xgboost_installed, feVars, prepVars, cfVars, extVars, appVars>>

NextTrain ==
    \/ InitializeModels
    \/ GetResultsDataframe
    \/ TrainWithCrossValidation
    \/ SelectBestModel
    \/ SaveModel
    \/ TrainModels

SpecTrain == InitTrain /\ [][NextTrain]_vars

\* ------------------------------------------------------------------------
\* Counterfactual run: one generator and the test students
\* ------------------------------------------------------------------------
\* a standardized actionable feature, a standardized feature without an
\* actionable keyword, a demographic feature and a behavioral feature
FeaturePool ==
    <<"avg_score_z", "study_intensity_z", "gender_encoded", "num_late_submissions">>

FeatureNameLists ==
    {SelectSeq(FeaturePool, LAMBDA f : f \in S) : S \in (SUBSET Range(FeaturePool)) \ {{}}}

\* a test student's feature vector
Instance(names) == [f \in Range(names) |-> Zero]

\* the feature list of the runs with several test students
BatchNames == <<"avg_score_z">>

\* X_test's columns with y_pred: one student under any feature list, or up
\* to MaxTest students (none included) under BatchNames
CFInputs ==
    {<<names, <<p>>>> : names \in FeatureNameLists, p \in {0, 1}}
    \cup {<<BatchNames, yp>> : yp \in UNION {[1..n -> {0, 1}] : n \in 0..MaxTest}}

\* np.where(y_pred == 1)[0]
atrisk_indices(yp) == SelectSeq([i \in 1..Len(yp) |-> i], LAMBDA i : yp[i] = 1)

\* variant: the sample is drawn with replacement
RandomChoice_with_replacement(indices, n) == [1..n -> Range(indices)]

\* np.random.choice(atrisk_indices, n_students, replace=False): any n of the
\* indices, in any order, none twice
RandomChoice(indices, n) ==
    {s \in [1..n -> Range(indices)] : \A i, j \in 1..n : i # j => s[i] # s[j]}

sample_indices(indices, n) ==
    IF Len(indices) > n THEN RandomChoice(indices, n) ELSE {indices}

\* setup_dice: dice_ml.Data, dice_ml.Model and Dice either build the
\* explainer or raise
SetupOutcomes == {"Dice", "raised"}

InitCF ==
    /\ \E input \in CFInputs :
          /\ feature_names = input[1]
          /\ y_pred = input[2]
    /\ n_students \in 0..MaxTest
    /\ explainer = "None"
    /\ actionable_features = NoneArg
    /\ dice_features_to_vary = NoneArg
    /\ counterfactuals = <<>>
    /\ cf_stage = "new"
    /\ cf_exc = "none"
    /\ FEIdle
    /\ PrepIdle
    /\ TrainIdle
    /\ ExtIdle
    /\ AppIdle

SetupDice ==
    /\ cf_stage = "new"
    /\ explainer = "None"
    /\ \E outcome \in SetupOutcomes :
          /\ explainer' = IF outcome = "raised" THEN "None" ELSE outcome
          /\ cf_exc' = IF outcome = "raised" THEN "Exception" ELSE "none"
    /\ UNCHANGED <<feature_names, y_pred, n_students, actionable_features,
                   dice_features_to_vary, counterfactuals, cf_stage, feVars, prepVars,
                   trainVars, extVars, appVars>>

GetActionableFeatures ==
    /\ cf_stage = "new"
    /\ actionable_features = NoneArg
    /\ actionable_features' = ListArg(get_actionable_features(feature_names))
    /\ cf_exc' = "none"
    /\ UNCHANGED <<feature_names, y_pred, n_students, explainer, dice_features_to_vary,
                   counterfactuals, cf_stage, feVars, prepVars, trainVars, extVars, appVars>>

\* the loop of generate_for_atrisk_students over sample: the first
\* generate_counterfactuals sets the explainer up when there is none, outside
\* its try block, and every student's search runs inside it
GenerateLoop(sample, features_to_vary, explainer_before) ==
    \/ /\ explainer_before = "None"
       /\ "raised" \in SetupOutcomes
       /\ cf_exc' = "Exception"
       /\ explainer' = "None"
       /\ UNCHANGED <<dice_features_to_vary, counterfactuals>>
    \/ /\ cf_exc' = "none"
       /\ explainer' = "Dice"
       /\ dice_features_to_vary' = DiceFeaturesToVary(features_to_vary)
       /\ \E outcomes \in [1..Len(sample) ->
                              DiceOutcomes(Instance(feature_names), feature_names,
                                           DiceFeaturesToVary(features_to_vary))] :
             counterfactuals' =
                 [k \in 1..Len(sample) |->
                     CounterfactualResult(Instance(feature_names), feature_names,
                                          outcomes[k])
                     @@ [instance_idx |-> sample[k]]]

\* generate_for_atrisk_students(X, y_pred, n_students, features_to_vary)
GenerateFor(n, features_to_vary, explainer_before) ==
    IF Len(atrisk_indices(y_pred)) = 0
    THEN /\ counterfactuals' = <<>>
         /\ cf_exc' = "none"
         /\ explainer' = explainer_before
         /\ UNCHANGED dice_features_to_vary
    ELSE \E sample \in sample_indices(atrisk_indices(y_pred), n) :
            IF Len(sample) = 0
            THEN /\ counterfactuals' = <<>>
                 /\ cf_exc' = "none"
                 /\ explainer' = explainer_before
                 /\ UNCHANGED dice_features_to_vary
            ELSE GenerateLoop(sample, features_to_vary, explainer_before)

\* a caller's generate_for_atrisk_students with no whitelist (the default)
GenerateForAtRiskStudents ==
    /\ cf_stage = "new"
    /\ GenerateFor(n_students, NoneArg, explainer)
    /\ cf_stage' = "generated"
    /\ UNCHANGED <<feature_names, y_pred, n_students, actionable_features, feVars,
                   prepVars, trainVars, extVars, appVars>>

\* generate_counterfactual_advice: a new generator, its whitelist, the search
GenerateCounterfactualAdvice ==
    /\ cf_stage = "new"
    /\ actionable_features' = ListArg(get_actionable_features(feature_names))
    /\ GenerateFor(n_students, ListArg(get_actionable_features(feature_names)), "None")
    /\ cf_stage' = "advice"
    /\ UNCHANGED <<feature_names, y_pred, n_students, feVars, prepVars, trainVars,
                   extVars, appVars>>

NextCF ==
    \/ SetupDice
    \/ GetActionableFeatures
    \/ GenerateForAtRiskStudents
    \/ GenerateCounterfactualAdvice

SpecCF == InitCF /\ [][NextCF]_vars

\* ------------------------------------------------------------------------
\* Advice run: one LLMAdvisor and a list of students with counterfactuals
\* ------------------------------------------------------------------------
\* a student's dict: values that json.dumps takes or a numpy integer, with or
\* without a counterfactual, with or without instance_idx
StudentDicts ==
    {base @@ idx :
        base \in {[original_instance |-> [avg_score_z |-> v], counterfactuals |-> cfs] :
                     v \in {"0.5", "numpy.int64"},
                     cfs \in {<<>>, <<[changes |-> [avg_score_z |-> "1.0"]]>>}},
        idx \in {<<>>, [instance_idx |-> 7]}}

StudentLists == UNION {[1..n -> StudentDicts] : n \in 0..MaxBatch}

ResponseTexts == UNION {[1..n -> ResponseTokens] : n \in 0..MaxTokens}

\* what model.generate_content and response.text do: raise, or give a text
ApiOutcomes ==
    {[raised |-> TRUE, text |-> <<>>]} \cup {[raised |-> FALSE, text |-> t] : t \in ResponseTexts}

\* the answers to the calls of a batch: a failure, an object, an array, prose
BatchOutcomes ==
    {[raised |-> TRUE, text |-> <<>>]}
    \cup {[raised |-> FALSE, text |-> <<t>>] : t \in {"{}", "[]", "x"}}

InitLLM ==
    /\ \E students \in StudentLists :
          advisor = [stage |-> "new", students |-> students, outcomes |-> <<>>,
                     advice |-> <<>>, calls |-> <<>>]
    /\ xai = [stage |-> "idle"]
    /\ runs = [stage |-> "idle"]
    /\ agg = [stage |-> "idle"]
    /\ pipeline = [stage |-> "idle"]
    /\ load = [stage |-> "idle"]
    /\ FEIdle
    /\ PrepIdle
    /\ TrainIdle
    /\ CFIdle
    /\ AppIdle

\* generate_advice for the student of a one-student list
GenerateAdvice ==
    /\ advisor.stage = "new"
    /\ Len(advisor.students) = 1
    /\ \E outcome \in ApiOutcomes :
          \E r \in {generate_advice(
                        DictGet(advisor.students[1], "original_instance", <<>>),
                        FirstChanges(DictGet(advisor.students[1], "counterfactuals", <<>>)),
                        outcome)} :
             advisor' = [advisor EXCEPT !.stage = "single", !.outcomes = <<outcome>>,
                                        !.advice = <<r.advice>>, !.calls = <<r.calls>>]
    /\ UNCHANGED <<appVars, feVars, prepVars, trainVars, cfVars, xai, runs, agg, pipeline, load>>

GenerateBatchAdvice ==
    /\ advisor.stage = "new"
    /\ \E outcomes \in [1..Len(advisor.students) -> BatchOutcomes] :
          \E r \in {generate_batch_advice(advisor.students, outcomes)} :
             advisor' = [advisor EXCEPT !.stage = "batch", !.outcomes = outcomes,
                                        !.advice = [i \in 1..Len(r) |-> r[i].advice],
                                        !.calls = [i \in 1..Len(r) |-> r[i].calls]]
    /\ UNCHANGED <<appVars, feVars, prepVars, trainVars, cfVars, xai, runs, agg, pipeline, load>>

NextLLM ==
    \/ GenerateAdvice
    \/ GenerateBatchAdvice

SpecLLM == InitLLM /\ [][NextLLM]_vars

\* ------------------------------------------------------------------------
\* Explanation run: one SHAPExplainer and the callers of both mechanisms
\* ------------------------------------------------------------------------
InitXAI ==
    /\ \E env \in [{"SHAP_AVAILABLE", "MATPLOTLIB_AVAILABLE", "anchor_installed",
                    "tree_ok", "kernel_ok", "values_ok", "anchor_ok", "any_atrisk"}
                       -> BOOLEAN] :
          xai = env @@ [stage |-> "new", explainer |-> "None", shap_values |-> "None",
                        call |-> "none", returned |-> <<>>, exc |-> "none"]
    /\ advisor = [stage |-> "idle"]
    /\ runs = [stage |-> "idle"]
    /\ agg = [stage |-> "idle"]
    /\ pipeline = [stage |-> "idle"]
    /\ load = [stage |-> "idle"]
    /\ FEIdle
    /\ PrepIdle
    /\ TrainIdle
    /\ CFIdle
    /\ AppIdle

CreateExplainer ==
    /\ xai.stage \in {"new", "called"}
    /\ xai.explainer = "None"
    /\ \E use_tree_explainer \in BOOLEAN :
          xai' = [create_explainer(xai, use_tree_explainer) EXCEPT
                     !.stage = "called", !.call = "create_explainer"]
    /\ UNCHANGED <<appVars, feVars, prepVars, trainVars, cfVars, advisor, runs, agg, pipeline, load>>

CalculateShapValues ==
    /\ xai.stage \in {"new", "called"}
    /\ xai.shap_values = "None"
    /\ xai' = [calculate_shap_values(xai) EXCEPT
                  !.stage = "called", !.call = "calculate_shap_values"]
    /\ UNCHANGED <<appVars, feVars, prepVars, trainVars, cfVars, advisor, runs, agg, pipeline, load>>

ExplainModelGlobally ==
    /\ xai.stage = "new"
    /\ xai' = [explain_model_globally(xai) EXCEPT
                  !.stage = "called", !.call = "explain_model_globally"]
    /\ UNCHANGED <<appVars, feVars, prepVars, trainVars, cfVars, advisor, runs, agg, pipeline, load>>

GenerateAnchorExplanations ==
    /\ xai.stage = "new"
    /\ xai' = [generate_anchor_explanations(xai) EXCEPT
                  !.stage = "called", !.call = "generate_anchor_explanations"]
    /\ UNCHANGED <<appVars, feVars, prepVars, trainVars, cfVars, advisor, runs, agg, pipeline, load>>

NextXAI ==
    \/ CreateExplainer
    \/ CalculateShapValues
    \/ ExplainModelGlobally
    \/ GenerateAnchorExplanations

SpecXAI == InitXAI /\ [][NextXAI]_vars

\* ------------------------------------------------------------------------
\* Two selection runs: ModelTrainer(X, y, random_state) twice on the same
\* data, train_with_cross_validation and select_best_model each time
\* ------------------------------------------------------------------------
\* variant: SVC is built without random_state
random_state_of_svm_unseeded(component) ==
    IF component \in {"SMOTE", "StratifiedKFold", "Logistic Regression", "Random Forest",
                      "CatBoost", "XGBoost"}
    THEN "self.random_state" ELSE "None"

\* the random_state each randomized component is built with
random_state_of(component) ==
    IF component \in {"SMOTE", "StratifiedKFold", "Logistic Regression", "Random Forest",
                      "CatBoost", "XGBoost", "SVM"}
    THEN "self.random_state" ELSE "None"

\* the candidates whose fold scores the seed does not fix: all of them when
\* the resampling or the splitter is unseeded, else the unseeded estimators
Unseeded ==
    {name \in AllModelNames :
        \E c \in {"SMOTE", "StratifiedKFold", name} : random_state_of(c) = "None"}

\* cross_validate's scores in one run: those the data and the seed fix, and
\* fresh ones for the unseeded candidates
RunScores(cv, fresh) ==
    [name \in AllModelNames |->
        IF name \in Unseeded THEN [cv[name] EXCEPT !["f1"] = fresh[name]] ELSE cv[name]]

\* one run: what select_best_model picks or raises
SelectionOutcome(tr) == [best_model_name |-> tr.best_model_name, exc |-> tr.exc]

InitRuns ==
    /\ \E cv \in CvResults, catboost \in BOOLEAN :
          runs = [stage |-> "new", random_state |-> 42, catboost |-> catboost,
                  cv |-> cv, first |-> <<>>, second |-> <<>>]
    /\ advisor = [stage |-> "idle"]
    /\ xai = [stage |-> "idle"]
    /\ agg = [stage |-> "idle"]
    /\ pipeline = [stage |-> "idle"]
    /\ load = [stage |-> "idle"]
    /\ FEIdle
    /\ PrepIdle
    /\ TrainIdle
    /\ CFIdle
    /\ AppIdle

SelectionRun ==
    /\ runs.stage \in {"new", "one"}
    /\ \E fresh \in [Unseeded -> FoldVectors] :
          \E r \in {SelectionOutcome(select_best_model(
                        train_with_cross_validation(NewTrainer(NoFile), runs.catboost,
                                                    FALSE, RunScores(runs.cv, fresh)),
                        "f1"))} :
             runs' = IF runs.stage = "new"
                     THEN [runs EXCEPT !.stage = "one", !.first = r]
                     ELSE [runs EXCEPT !.stage = "two", !.second = r]
    /\ UNCHANGED <<appVars, feVars, prepVars, trainVars, cfVars, advisor, xai, agg, pipeline, load>>

NextRuns == SelectionRun

SpecRuns == InitRuns /\ [][NextRuns]_vars

\* ------------------------------------------------------------------------
\* Aggregation of one model's fold scores, in the order cross_validate
\* returned them and in another fold order
\* ------------------------------------------------------------------------
\* test scores in [0, 1]: 1, 1/3, 2/3, 1/5, and a failed fold
ScoreValues ==
    {One, FDiv(One, FromInt(3)), FDiv(FromInt(2), FromInt(3)),
     FDiv(One, FromInt(5)), NaN}

FoldOrders == {p \in [1..AggFolds -> 1..AggFolds] : Range(p) = 1..AggFolds}

\* cv_results['test_' + metric] for every metric of scoring
TestScores(scores) == [m \in Range(scoring) |-> scores]

InitAgg ==
    /\ \E scores \in [1..AggFolds -> ScoreValues] :
          agg = [stage |-> "new", scores |-> scores, order |-> <<>>,
                 results |-> <<>>, reordered |-> <<>>]
    /\ advisor = [stage |-> "idle"]
    /\ xai = [stage |-> "idle"]
    /\ runs = [stage |-> "idle"]
    /\ pipeline = [stage |-> "idle"]
    /\ load = [stage |-> "idle"]
    /\ FEIdle
    /\ PrepIdle
    /\ TrainIdle
    /\ CFIdle
    /\ AppIdle

\* results[model_name] of the run, and of a run whose folds come in the order p
AggregateFolds ==
    /\ agg.stage = "new"
    /\ \E p \in FoldOrders :
          \E r \in {Summary(TestScores(agg.scores))},
             q \in {Summary(TestScores([k \in 1..AggFolds |-> agg.scores[p[k]]]))} :
             agg' = [agg EXCEPT !.stage = "aggregated", !.order = p,
                                !.results = r, !.reordered = q]
    /\ UNCHANGED <<appVars, feVars, prepVars, trainVars, cfVars, advisor, xai, runs, pipeline, load>>

NextAgg == AggregateFolds

SpecAgg == InitAgg /\ [][NextAgg]_vars

\* ------------------------------------------------------------------------
\* Loading the input files and preprocessing what was loaded
\* ------------------------------------------------------------------------
\* files of OULADLoader.load_all_files, in the order of the dict
InputFiles ==
    <<"studentInfo", "studentAssessment", "assessments", "studentRegistration",
      "studentVle", "vle", "courses">>

\* a file on disk: not there, readable by pd.read_csv, or read_csv raises
FileStates == {"absent", "ok", "unreadable"}

\* load_all_files: a missing file is skipped with a warning, a file whose
\* read raises is skipped with an error, the others are stored in self.data
load_all_files(disk) ==
    [data |-> {name \in Range(InputFiles) : disk[name] = "ok"},
     warnings |-> SelectSeq(InputFiles, LAMBDA name : disk[name] = "absent"),
     errors |-> SelectSeq(InputFiles, LAMBDA name : disk[name] = "unreadable"),
     exc |-> "none"]

\* load_oulad_data: load_all_files, then get_dataset_info over the loaded tables
load_oulad_data(disk) ==
    [data |-> load_all_files(disk).data, info |-> load_all_files(disk).data,
     warnings |-> load_all_files(disk).warnings,
     errors |-> load_all_files(disk).errors, exc |-> load_all_files(disk).exc]

\* self.data[...] lookups of merge_all_tables and the aggregate_* methods it
\* calls, in the order they are executed
TablesRead ==
    <<"studentInfo", "studentAssessment", "assessments", "studentVle",
      "studentRegistration">>

\* preprocess_oulad_data: clean_data over the loaded tables, then
\* merge_all_tables; the first table that is not in self.data raises KeyError
preprocess_oulad_data(data_dict) ==
    IF \E k \in 1..Len(TablesRead) : TablesRead[k] \notin data_dict
    THEN [merged_df |-> "None", exc |-> "KeyError",
          key |-> TablesRead[CHOOSE k \in 1..Len(TablesRead) :
                                /\ TablesRead[k] \notin data_dict
                                /\ \A j \in 1..(k - 1) : TablesRead[j] \in data_dict]]
    ELSE [merged_df |-> "DataFrame", exc |-> "none", key |-> "None"]

InitLoad ==
    /\ \E disk \in [Range(InputFiles) -> FileStates] :
          load = [stage |-> "new", disk |-> disk, data |-> {}, info |-> {},
                  warnings |-> <<>>, errors |-> <<>>, merged_df |-> "None",
                  exc |-> "none", key |-> "None"]
    /\ advisor = [stage |-> "idle"]
    /\ xai = [stage |-> "idle"]
    /\ runs = [stage |-> "idle"]
    /\ agg = [stage |-> "idle"]
    /\ pipeline = [stage |-> "idle"]
    /\ FEIdle
    /\ PrepIdle
    /\ TrainIdle
    /\ CFIdle
    /\ AppIdle

\* run_pipeline step 1
LoadOuladData ==
    /\ load.stage = "new"
    /\ \E r \in {load_oulad_data(load.disk)} :
          load' = [load EXCEPT !.stage = "loaded", !.data = r.data, !.info = r.info,
                               !.warnings = r.warnings, !.errors = r.errors,
                               !.exc = r.exc]
    /\ UNCHANGED <<appVars, feVars, prepVars, trainVars, cfVars, advisor, xai, runs, agg, pipeline>>

\* run_pipeline step 2
PreprocessOuladData ==
    /\ load.stage = "loaded"
    /\ load.exc = "none"
    /\ \E r \in {preprocess_oulad_data(load.data)} :
          load' = [load EXCEPT !.stage = IF r.exc = "none" THEN "preprocessed"
                                          ELSE "aborted",
                               !.merged_df = r.merged_df, !.exc = r.exc,
                               !.key = r.key]
    /\ UNCHANGED <<appVars, feVars, prepVars, trainVars, cfVars, advisor, xai, runs, agg, pipeline>>

NextLoad ==
    \/ LoadOuladData
    \/ PreprocessOuladData

SpecLoad == InitLoad /\ [][NextLoad]_vars

\* ------------------------------------------------------------------------
\* run_pipeline: one run, step by step
\* ------------------------------------------------------------------------
\* the steps of run_pipeline in the order of its statements; step 7 is inside
\* if generate_llm
StageOrder(generate_llm) ==
    IF generate_llm
    THEN <<"load", "preprocess", "features", "train", "shap", "counterfactuals",
           "llm", "save">>
    ELSE <<"load", "preprocess", "features", "train", "shap", "counterfactuals",
           "save">>

\* dataset folders: complete, without studentInfo.csv, without vle.csv
PipelineDisks ==
    {[name \in Range(InputFiles) |-> IF name = missing THEN "absent" ELSE "ok"] :
        missing \in {"none", "studentInfo", "vle"}}

\* cross-validation scores of a run: the F1 folds of two models vary
PipelineCv ==
    {cv \in CvResults :
        \A name \in AllModelNames \ {"Logistic Regression", "Random Forest"} :
            cv[name]["f1"] = [k \in 1..NFolds |-> One]}

\* the SHAP environment of a run
PipelineXai(shap_available, values_ok) ==
    [SHAP_AVAILABLE |-> shap_available, MATPLOTLIB_AVAILABLE |-> TRUE,
     anchor_installed |-> TRUE, tree_ok |-> TRUE, kernel_ok |-> TRUE,
     values_ok |-> values_ok, anchor_ok |-> TRUE, any_atrisk |-> TRUE,
     stage |-> "new", explainer |-> "None", shap_values |-> "None",
     call |-> "none", returned |-> <<>>, exc |-> "none"]

\* a step that ran to its end
StageDone(p, name, next) ==
    [p EXCEPT !.stage = next, !.started = Append(@, name),
              !.finished = Append(@, name)]

\* a step whose exception leaves run_pipeline
StageRaised(p, name, e) ==
    [p EXCEPT !.stage = "aborted", !.started = Append(@, name), !.exc = e]

\* if save_results: write the file
Written(p, file) ==
    IF p.save_results THEN [p EXCEPT !.files = @ \cup {file}] ELSE p

\* step 7 without its try/except
llm_stage_uncaught(p, outcome) ==
    IF ~p.generate_llm THEN [p EXCEPT !.stage = "advised"]
    ELSE IF outcome = "raised" THEN StageRaised(p, "llm", "Exception")
    ELSE Written(StageDone(p, "llm", "advised"), "results/llm_advice.json")

\* step 7: skipped unless generate_llm; generate_llm_advice and the json.dump
\* of its result run inside try, and except Exception logs and continues
llm_stage(p, outcome) ==
    IF ~p.generate_llm THEN [p EXCEPT !.stage = "advised"]
    ELSE IF outcome = "raised"
    THEN [StageDone(p, "llm", "advised") EXCEPT !.llm_failed = TRUE]
    ELSE IF outcome = "dump raised"
    THEN [Written(StageDone(p, "llm", "advised"), "results/llm_advice.json")
             EXCEPT !.llm_failed = p.save_results]
    ELSE Written(StageDone(p, "llm", "advised"), "results/llm_advice.json")

InitPipeline ==
    /\ \E generate_llm \in BOOLEAN, save_results \in BOOLEAN :
          pipeline = [stage |-> "new", generate_llm |-> generate_llm,
                      save_results |-> save_results, started |-> <<>>,
                      finished |-> <<>>, data |-> {}, files |-> {},
                      model_dumps |-> 0, model_file |-> "None",
                      dumps_at |-> <<>>, n_counterfactuals |-> 0,
                      llm_failed |-> FALSE, exc |-> "none"]
    /\ advisor = [stage |-> "idle"]
    /\ xai = [stage |-> "idle"]
    /\ runs = [stage |-> "idle"]
    /\ agg = [stage |-> "idle"]
    /\ load = [stage |-> "idle"]
    /\ FEIdle
    /\ PrepIdle
    /\ TrainIdle
    /\ CFIdle
    /\ AppIdle

\* step 1: load_oulad_data
StepLoad ==
    /\ pipeline.stage = "new"
    /\ \E disk \in PipelineDisks :
          pipeline' = [StageDone(pipeline, "load", "loaded") EXCEPT
                          !.data = load_oulad_data(disk).data]
    /\ UNCHANGED <<appVars, feVars, prepVars, trainVars, cfVars, advisor, xai, runs, agg, load>>

\* step 2: preprocess_oulad_data, merged_data.csv
StepPreprocess ==
    /\ pipeline.stage = "loaded"
    /\ \E r \in {preprocess_oulad_data(pipeline.data)} :
          pipeline' = IF r.exc # "none"
                      THEN StageRaised(pipeline, "preprocess", r.exc)
                      ELSE Written(StageDone(pipeline, "preprocess", "preprocessed"),
                                   "data/processed/merged_data.csv")
    /\ UNCHANGED <<appVars, feVars, prepVars, trainVars, cfVars, advisor, xai, runs, agg, load>>

\* step 3: engineer_features, prepare_modeling_data, modeling_data.csv
StepFeatures ==
    /\ pipeline.stage = "preprocessed"
    /\ \E outcome \in {"ok", "raised"} :
          pipeline' = IF outcome = "raised"
                      THEN StageRaised(pipeline, "features", "Exception")
                      ELSE Written(StageDone(pipeline, "features", "engineered"),
                                   "data/features/modeling_data.csv")
    /\ UNCHANGED <<appVars, feVars, prepVars, trainVars, cfVars, advisor, xai, runs, agg, load>>

\* step 4: train_test_split, train_models (which saves models/best_model.pkl
\* whatever save_results is), predictions of the test set
StepTrain ==
    /\ pipeline.stage = "engineered"
    /\ \E split_ok \in BOOLEAN, catboost \in BOOLEAN, xgboost \in BOOLEAN,
          cv \in PipelineCv :
          \E tr \in {train_models(NoFile, catboost, xgboost, cv)} :
             pipeline' =
                 IF ~split_ok THEN StageRaised(pipeline, "train", "ValueError")
                 ELSE IF tr.exc # "none" THEN StageRaised(pipeline, "train", tr.exc)
                 ELSE [StageDone(pipeline, "train", "trained") EXCEPT
                          !.model_dumps = @ + 1,
                          !.model_file = tr.saved.model_name,
                          !.dumps_at = Append(@, Len(pipeline.started) + 1)]
    /\ UNCHANGED <<appVars, feVars, prepVars, trainVars, cfVars, advisor, xai, runs, agg, load>>

\* step 5: explain_model_globally, not inside a try
StepShap ==
    /\ pipeline.stage = "trained"
    /\ \E shap_available \in BOOLEAN, values_ok \in BOOLEAN :
          \E r \in {explain_model_globally(PipelineXai(shap_available, values_ok))} :
             pipeline' = IF r.exc # "none" THEN StageRaised(pipeline, "shap", r.exc)
                         ELSE StageDone(pipeline, "shap", "explained")
    /\ UNCHANGED <<appVars, feVars, prepVars, trainVars, cfVars, advisor, xai, runs, agg, load>>

\* step 6: generate_counterfactual_advice, counterfactuals.json
StepCounterfactuals ==
    /\ pipeline.stage = "explained"
    /\ \E outcome \in SetupOutcomes, n \in 0..MaxBatch :
          pipeline' =
              IF outcome = "raised" /\ n > 0
              THEN StageRaised(pipeline, "counterfactuals", "Exception")
              ELSE [Written(StageDone(pipeline, "counterfactuals", "counterfactuals"),
                            "results/counterfactuals.json")
                       EXCEPT !.n_counterfactuals = n]
    /\ UNCHANGED <<appVars, feVars, prepVars, trainVars, cfVars, advisor, xai, runs, agg, load>>

\* step 7: generate_llm_advice, llm_advice.json
StepLlmAdvice ==
    /\ pipeline.stage = "counterfactuals"
    /\ \E outcome \in {"ok", "raised", "dump raised"} :
          pipeline' = llm_stage(pipeline, outcome)
    /\ UNCHANGED <<appVars, feVars, prepVars, trainVars, cfVars, advisor, xai, runs, agg, load>>

\* step 8: student_predictions.csv, then the summary and the return
StepSavePredictions ==
    /\ pipeline.stage = "advised"
    /\ \E outcome \in {"ok", "raised"} :
          pipeline' =
              IF outcome = "raised" /\ pipeline.save_results
              THEN StageRaised(pipeline, "save", "OSError")
              ELSE Written(StageDone(pipeline, "save", "completed"),
                           "data/processed/student_predictions.csv")
    /\ UNCHANGED <<appVars, feVars, prepVars, trainVars, cfVars, advisor, xai, runs, agg, load>>

NextPipeline ==
    \/ StepLoad
    \/ StepPreprocess
    \/ StepFeatures
    \/ StepTrain
    \/ StepShap
    \/ StepCounterfactuals
    \/ StepLlmAdvice
    \/ StepSavePredictions

SpecPipeline == InitPipeline /\ [][NextPipeline]_vars

\* ------------------------------------------------------------------------
\* ColdStartHandler: one handler over a historical table, one prediction
\* ------------------------------------------------------------------------
Letters == <<"a", "b", "c", "d", "e", "f", "g">>

\* region column of n students: the first is "a", each next one has the
\* region of the previous student or the next letter
RegionColumns(n) ==
    {[i \in 1..n |-> Letters[1 + Cardinality({j \in 2..i : s[j] = 1})]] :
        s \in [2..n -> {0, 1}]}

\* historical_data: a region column (or no demographic column at all) and an
\* is_at_risk column (or no risk column at all)
HistTables ==
    UNION {{[region |-> r, is_at_risk |-> y, has_region |-> hr, has_risk |-> hk] :
               r \in RegionColumns(n), y \in [1..n -> {0, 1}],
               hr \in BOOLEAN, hk \in BOOLEAN} : n \in 1..MaxHist}

\* LabelEncoder.classes_: the distinct values of the column
Classes(column) == Range(column)

\* LabelEncoder.transform: position of the value among the sorted classes
Code(column, value) == Cardinality({u \in Classes(column) : StrLt(u, value)})

\* _prepare_demographic_model: nothing is prepared without a demographic
\* column; otherwise the encoded matrix and a fitted NearestNeighbors
prepare_demographic_model(h) ==
    IF ~h.has_region
    THEN [knn_model |-> "None", feature_matrix |-> <<>>, n_features |-> 0]
    ELSE [knn_model |-> "NearestNeighbors",
          feature_matrix |-> [i \in 1..Len(h.region) |-> Code(h.region, h.region[i])],
          n_features |-> 1]

\* value in classes_ ? transform([value])[0] : 0
EncodeInput(h, value) ==
    IF value \in Classes(h.region) THEN Code(h.region, value) ELSE 0

\* euclidean distances of the encoded input to the rows of the matrix
Distances(matrix, encoded_input) ==
    [i \in 1..Len(matrix) |->
        FSqrt(FromInt((matrix[i] - encoded_input) * (matrix[i] - encoded_input)))]

\* rows of S in the order of (distance, row)
RECURSIVE ByDistance(_, _)
ByDistance(S, distances) ==
    IF S = {} THEN <<>>
    ELSE <<CHOOSE i \in S : \A j \in S \ {i} :
                \/ FGt(distances[j], distances[i])
                \/ distances[j] = distances[i] /\ j > i>>
         \o ByDistance(S \ {CHOOSE i \in S : \A j \in S \ {i} :
                                \/ FGt(distances[j], distances[i])
                                \/ distances[j] = distances[i] /\ j > i},
                       distances)

\* kneighbors: any k rows none of which is farther than a row left out
kneighbors(distances, k) ==
    {ByDistance(S, distances) :
        S \in {T \in SUBSET (1..Len(distances)) :
                  /\ Cardinality(T) = k
                  /\ \A i \in T, j \in (1..Len(distances)) \ T :
                        FLe(distances[i], distances[j])}}

DefaultPrediction(method) ==
    [risk_probability |-> FDiv(One, FromInt(2)), confidence |-> Zero,
     method |-> method, indices |-> <<>>, distances |-> <<>>]

FMin(a, b) == IF FLe(a, b) THEN a ELSE b

\* np.average(risk_probs, weights=weights), the weights normalized before
Average(risk_probs, weights) ==
    FDiv(NpSum([i \in 1..Len(weights) |-> FMul(risk_probs[i], weights[i])], Zero),
         NpSum(weights, Zero))

RawWeights(d) == [i \in 1..Len(d) |-> FDiv(One, FAdd(d[i], MicroEps))]

Normalized(w, total) == [i \in 1..Len(w) |-> FDiv(w[i], total)]

\* lines 152-166: the weighted prediction and the combined confidence
Combine(risk_probs, weights, d, n_features, indices) ==
    [risk_probability |-> Average(risk_probs, weights),
     confidence |->
        FDiv(FAdd(FSub(One, FMin(FMul(NpMean(SquaredDev(risk_probs, NpMean(risk_probs))),
                                      FromInt(2)), One)),
                  FSub(One, FDiv(NpMean(d), FSqrt(FromInt(n_features))))),
             FromInt(2)),
     method |-> "demographic_knn", indices |-> indices, distances |-> d]

\* predict_new_student once the neighbours are known
PredictFrom(h, model, distances, indices) ==
    IF ~h.has_risk THEN DefaultPrediction("no_risk_data")
    ELSE Combine([i \in 1..Len(indices) |-> FromInt(h.is_at_risk[indices[i]])],
                 Normalized(RawWeights([i \in 1..Len(indices) |-> distances[indices[i]]]),
                            NpSum(RawWeights([i \in 1..Len(indices) |->
                                                 distances[indices[i]]]), Zero)),
                 [i \in 1..Len(indices) |-> distances[indices[i]]],
                 model.n_features, indices)

\* predict_new_student(student_demographics, k_neighbors): the results the
\* neighbour search allows
predict_new_student(h, model, value, k_neighbors) ==
    IF model.knn_model = "None" THEN {DefaultPrediction("default")}
    ELSE {PredictFrom(h, model,
                      Distances(model.feature_matrix, EncodeInput(h, value)), indices) :
            indices \in kneighbors(Distances(model.feature_matrix, EncodeInput(h, value)),
                                   Min2(k_neighbors, Len(h.region)))}

\* student_demographics['region']: a region of the data, one not in the data,
\* and a dict without the key (read as 'Unknown')
RegionInputs == {"a", "c", "zz", "Unknown"}

InitCold ==
    /\ \E h \in HistTables :
          cold = [stage |-> "new", historical_data |-> h,
                  model |-> prepare_demographic_model(h),
                  value |-> "", k_neighbors |-> 0, result |-> <<>>]
    /\ proto = [stage |-> "idle"]
    /\ accounts = [stage |-> "idle"]
    /\ quiz = [stage |-> "idle"]
    /\ forum = [stage |-> "idle"]
    /\ progress = [stage |-> "idle"]
    /\ FEIdle
    /\ PrepIdle
    /\ TrainIdle
    /\ CFIdle
    /\ ExtIdle

PredictNewStudent ==
    /\ cold.stage = "new"
    /\ \E value \in RegionInputs, k_neighbors \in {1, 10} :
          \E r \in predict_new_student(cold.historical_data, cold.model, value,
                                        k_neighbors) :
             cold' = [cold EXCEPT !.stage = "predicted", !.value = value,
                                  !.k_neighbors = k_neighbors, !.result = r]
    /\ UNCHANGED <<feVars, prepVars, trainVars, cfVars, extVars, proto, accounts,
                   quiz, forum, progress>>

NextCold == PredictNewStudent

SpecCold == InitCold /\ [][NextCold]_vars

\* ------------------------------------------------------------------------
\* ProtoNet: one instance, fitted on support sets and queried
\* ------------------------------------------------------------------------
ExpTerms == 8

\* 1 + x + x^2/2! + ... for x >= 0
RECURSIVE ExpSeries(_, _, _, _)
ExpSeries(x, k, term, acc) ==
    IF k > ExpTerms THEN acc
    ELSE ExpSeries(x, k + 1, FDiv(FMul(term, x), FromInt(k)),
                   FAdd(acc, FDiv(FMul(term, x), FromInt(k))))

\* np.exp
FExp(x) ==
    IF IsNaN(x) THEN NaN
    ELSE IF x[1] = 0 THEN One
    ELSE IF x[1] < 0 THEN FDiv(One, ExpSeries(FNeg(x), 1, One, One))
    ELSE ExpSeries(x, 1, One, One)

\* np.unique(y_support): the distinct labels in increasing order
RECURSIVE Unique(_)
Unique(S) ==
    IF S = {} THEN <<>>
    ELSE <<CHOOSE c \in S : \A d \in S : c <= d>>
         \o Unique(S \ {CHOOSE c \in S : \A d \in S : c <= d})

\* X_support[y_support == cls]
ClassExamples(support, cls) ==
    [k \in 1..Len(SelectSeq(support, LAMBDA e : e[2] = cls)) |->
        FromInt(SelectSeq(support, LAMBDA e : e[2] = cls)[k][1])]

\* compute_prototype: np.mean(examples, axis=0)
compute_prototype(examples) == NpMean(examples)

\* self.prototypes[cls] = ...: a new key goes to the end of the dict, a key
\* already there keeps its place
DictSet(d, key, value) ==
    [keys |-> IF key \in Range(d.keys) THEN d.keys ELSE Append(d.keys, key),
     val |-> [c \in Range(d.keys) \cup {key} |-> IF c = key THEN value ELSE d.val[c]]]

EmptyDict == [keys |-> <<>>, val |-> <<>>]

\* fit: the loop over unique_classes, on the prototypes already stored
RECURSIVE fit(_, _, _)
fit(prototypes, support, classes) ==
    IF Len(classes) = 0 THEN prototypes
    ELSE fit(DictSet(prototypes, Head(classes),
                     compute_prototype(ClassExamples(support, Head(classes)))),
             support, Tail(classes))

\* euclidean_distance of one-feature rows
euclidean_distance(x, prototype) ==
    FSqrt(NpSum(<<FMul(FSub(x, prototype), FSub(x, prototype))>>, Zero))

RECURSIVE FMaxSeq(_)
FMaxSeq(v) ==
    IF Len(v) = 1 THEN v[1]
    ELSE IF FGt(v[1], FMaxSeq(Tail(v))) THEN v[1] ELSE FMaxSeq(Tail(v))

\* lines 85-89: softmax of the negated distances
Softmax(scores, top) ==
    [j \in 1..Len(scores) |->
        FDiv(FExp(FSub(scores[j], top)),
             NpSum([i \in 1..Len(scores) |-> FExp(FSub(scores[i], top))], Zero))]

\* column index of probabilities[i, int(cls)], columns 0..n_classes-1
OutOfBounds(prototypes) ==
    \E c \in Range(prototypes.keys) : c >= Len(prototypes.keys)

\* predict_proba for one query row
predict_proba(prototypes, x) ==
    IF Len(prototypes.keys) = 0
    THEN [exc |-> "ValueError", probabilities |-> <<>>, distances |-> <<>>]
    ELSE IF OutOfBounds(prototypes)
    THEN [exc |-> "IndexError", probabilities |-> <<>>,
          distances |-> [c \in Range(prototypes.keys) |->
                            euclidean_distance(x, prototypes.val[c])]]
    ELSE [exc |-> "none",
          probabilities |->
             [col \in 0..(Len(prototypes.keys) - 1) |->
                 IF col \in Range(prototypes.keys)
                 THEN Softmax([j \in 1..Len(prototypes.keys) |->
                                  FNeg(euclidean_distance(x, prototypes.val[prototypes.keys[j]]))],
                              FMaxSeq([j \in 1..Len(prototypes.keys) |->
                                  FNeg(euclidean_distance(x, prototypes.val[prototypes.keys[j]]))]))
                          [CHOOSE j \in 1..Len(prototypes.keys) : prototypes.keys[j] = col]
                 ELSE Zero],
          distances |-> [c \in Range(prototypes.keys) |->
                            euclidean_distance(x, prototypes.val[c])]]

\* np.argmax(probabilities, axis=1): the first column holding the maximum
ArgMax(row) ==
    CHOOSE c \in DOMAIN row :
        /\ \A d \in DOMAIN row : FLe(row[d], row[c])
        /\ \A d \in DOMAIN row : d < c => ~FLe(row[c], row[d])

\* predict for one query row
predict(prototypes, x) ==
    IF predict_proba(prototypes, x).exc # "none"
    THEN [exc |-> predict_proba(prototypes, x).exc, returned |-> <<>>]
    ELSE [exc |-> "none", returned |-> <<ArgMax(predict_proba(prototypes, x).probabilities)>>]

\* support sets: one-feature examples <<x, y>>
SupportSets ==
    UNION {[1..n -> {0, 2} \X {0, 1, 2}] : n \in 1..MaxSupport}

QueryRows == {0, 1, 2}

InitProto ==
    /\ proto = [stage |-> "new", prototypes |-> EmptyDict, fits |-> 0,
                support |-> <<>>, query |-> 0, proba |-> <<>>, pred |-> <<>>]
    /\ cold = [stage |-> "idle"]
    /\ accounts = [stage |-> "idle"]
    /\ quiz = [stage |-> "idle"]
    /\ forum = [stage |-> "idle"]
    /\ progress = [stage |-> "idle"]
    /\ FEIdle
    /\ PrepIdle
    /\ TrainIdle
    /\ CFIdle
    /\ ExtIdle

\* ProtoNet.fit(X_support, y_support), as quick_adapt calls it per episode
Fit ==
    /\ proto.stage \in {"new", "fitted", "queried"}
    /\ proto.fits < MaxFits
    /\ \E support \in SupportSets :
          proto' = [proto EXCEPT
                       !.stage = "fitted", !.fits = @ + 1, !.support = support,
                       !.prototypes = fit(proto.prototypes, support,
                                          Unique({e[2] : e \in Range(support)})),
                       !.proba = <<>>, !.pred = <<>>]
    /\ UNCHANGED <<feVars, prepVars, trainVars, cfVars, extVars, cold, accounts,
                   quiz, forum, progress>>

\* predict_proba and predict on one query row
Query ==
    /\ proto.stage \in {"new", "fitted"}
    /\ \E x \in QueryRows :
          proto' = [proto EXCEPT
                       !.stage = IF proto.stage = "new" THEN "unfitted" ELSE "queried",
                       !.query = x,
                       !.proba = predict_proba(proto.prototypes, FromInt(x)),
                       !.pred = predict(proto.prototypes, FromInt(x))]
    /\ UNCHANGED <<feVars, prepVars, trainVars, cfVars, extVars, cold, accounts,
                   quiz, forum, progress>>

NextProto ==
    \/ Fit
    \/ Query

SpecProto == InitProto /\ [][NextProto]_vars

\* ------------------------------------------------------------------------
\* Student accounts: the students table, create_student, register and
\* authenticate_student
\* ------------------------------------------------------------------------
Emails == {"a@x.org", "b@x.org"}

Passwords == {"p1", "p2"}

\* hashlib.sha256(password.encode()).hexdigest()
hash_password(password) == "sha256:" \o password

RowEmails(students) == {students[k].email : k \in 1..Len(students)}

\* cursor.lastrowid of an INTEGER PRIMARY KEY: one more than the largest rowid
NextRowId(students) ==
    IF Len(students) = 0 THEN 1
    ELSE 1 + (CHOOSE i \in {students[k].id_student : k \in 1..Len(students)} :
                 \A k \in 1..Len(students) : students[k].id_student <= i)

\* an INSERT the table accepts whatever the email is
create_student_no_unique(students, email, password, first_name) ==
    [students |-> Append(students, [id_student |-> NextRowId(students), email |-> email,
                                    password_hash |-> hash_password(password),
                                    first_name |-> first_name]),
     returned |-> NextRowId(students)]

\* create_student: the INSERT fails with IntegrityError on an email already
\* in the table (email TEXT UNIQUE), which is answered with None
create_student(students, email, password, first_name) ==
    IF email \in RowEmails(students)
    THEN [students |-> students, returned |-> 0]
    ELSE [students |-> Append(students, [id_student |-> NextRowId(students),
                                         email |-> email,
                                         password_hash |-> hash_password(password),
                                         first_name |-> first_name]),
          returned |-> NextRowId(students)]

\* SELECT * FROM students WHERE ...: the first matching row, as a one-element
\* list, or the empty list for None
FetchOne(students, Match(_)) ==
    IF \E k \in 1..Len(students) : Match(students[k])
    THEN <<students[CHOOSE k \in 1..Len(students) :
                       /\ Match(students[k])
                       /\ \A j \in 1..(k - 1) : ~Match(students[j])]>>
    ELSE <<>>

authenticate_student(students, email, password) ==
    FetchOne(students, LAMBDA row : /\ row.email = email
                                    /\ row.password_hash = hash_password(password))

get_student(students, student_id) ==
    FetchOne(students, LAMBDA row : row.id_student = student_id)

\* POST /api/auth/register
register(students, email, password, first_name) ==
    IF email \in RowEmails(students)
    THEN [students |-> students, status |-> 400, student |-> <<>>, returned |-> 0]
    ELSE [students |-> create_student(students, email, password, first_name).students,
          status |-> 200,
          student |-> get_student(
              create_student(students, email, password, first_name).students,
              create_student(students, email, password, first_name).returned),
          returned |-> create_student(students, email, password, first_name).returned]

InitAccounts ==
    /\ accounts = [stage |-> "new", students |-> <<>>, calls |-> 0,
                   call |-> "none", email |-> "", password |-> "",
                   before |-> <<>>, returned |-> 0, row |-> <<>>, created |-> <<>>]
    /\ cold = [stage |-> "idle"]
    /\ proto = [stage |-> "idle"]
    /\ quiz = [stage |-> "idle"]
    /\ forum = [stage |-> "idle"]
    /\ progress = [stage |-> "idle"]
    /\ FEIdle
    /\ PrepIdle
    /\ TrainIdle
    /\ CFIdle
    /\ ExtIdle

\* what a successful creation adds to the history of the run
Created(log, email, password, first_name, returned) ==
    IF returned = 0 THEN log
    ELSE Append(log, [id_student |-> returned, email |-> email,
                      password |-> password, first_name |-> first_name])

CreateStudent ==
    /\ accounts.calls < MaxCalls
    /\ \E email \in Emails, password \in Passwords, first_name \in {"Ann", "Bob"} :
          \E r \in {create_student(accounts.students, email, password, first_name)} :
             accounts' = [accounts EXCEPT
                 !.stage = "called", !.calls = @ + 1, !.call = "create_student",
                 !.email = email, !.password = password,
                 !.before = accounts.students, !.students = r.students,
                 !.returned = r.returned, !.row = <<>>,
                 !.created = Created(@, email, password, first_name, r.returned)]
    /\ UNCHANGED <<feVars, prepVars, trainVars, cfVars, extVars, cold, proto,
                   quiz, forum, progress>>

Register ==
    /\ accounts.calls < MaxCalls
    /\ \E email \in Emails, password \in Passwords, first_name \in {"Ann", "Bob"} :
          \E r \in {register(accounts.students, email, password, first_name)} :
             accounts' = [accounts EXCEPT
                 !.stage = "called", !.calls = @ + 1, !.call = "register",
                 !.email = email, !.password = password,
                 !.before = accounts.students, !.students = r.students,
                 !.returned = r.returned, !.row = r.student,
                 !.created = Created(@, email, password, first_name, r.returned)]
    /\ UNCHANGED <<feVars, prepVars, trainVars, cfVars, extVars, cold, proto,
                   quiz, forum, progress>>

AuthenticateStudent ==
    /\ accounts.calls < MaxCalls
    /\ \E email \in Emails, password \in Passwords :
          accounts' = [accounts EXCEPT
              !.stage = "called", !.calls = @ + 1, !.call = "authenticate_student",
              !.email = email, !.password = password,
              !.before = accounts.students, !.returned = 0,
              !.row = authenticate_student(accounts.students, email, password)]
    /\ UNCHANGED <<feVars, prepVars, trainVars, cfVars, extVars, cold, proto,
                   quiz, forum, progress>>

NextAccounts ==
    \/ CreateStudent
    \/ Register
    \/ AuthenticateStudent

SpecAccounts == InitAccounts /\ [][NextAccounts]_vars

\* ---------------------------------------------------------------------
\* Quizzes: the quizzes, quiz_questions, quiz_answers and
\* student_quiz_attempts tables of database/models.py, start_quiz_attempt
\* and submit_quiz_attempt
\* ---------------------------------------------------------------------

\* the questions of the quiz under test with their answers, as
\* get_quiz_questions returns them (ORDER BY question_order, id); points are
\* whole numbers here and are read as REAL
QuestionSets ==
    { <<>>,
      << [id |-> 1, points |-> 1,
          answers |-> << [id |-> 11, is_correct |-> 0],
                         [id |-> 12, is_correct |-> 1] >>] >>,
      << [id |-> 1, points |-> 1,
          answers |-> << [id |-> 11, is_correct |-> 0],
                         [id |-> 12, is_correct |-> 1] >>],
         [id |-> 2, points |-> 2,
          answers |-> << [id |-> 21, is_correct |-> 1] >>] >> }

\* passing_score values given to create_quiz
PassingScores == {FromInt(50), FromInt(80)}

\* the one row of the quizzes table
QuizId == 1

\* student ids that take the quiz
QuizStudents == {1, 2}

\* Database.get_quiz: a one-element sequence, empty when there is no such quiz
get_quiz(q, quiz_id) ==
    IF quiz_id = QuizId
    THEN << [id |-> QuizId, passing_score |-> q.passing_score,
             max_attempts |-> q.max_attempts] >>
    ELSE <<>>

\* Database.get_quiz_questions
get_quiz_questions(q, quiz_id) ==
    IF quiz_id = QuizId THEN q.questions ELSE <<>>

\* SELECT * FROM student_quiz_attempts WHERE student_id = ? AND quiz_id = ?
\* (the quiz_id of a call is never 0, so the filter is always applied)
get_student_quiz_attempts(attempts, student_id, quiz_id) ==
    SelectSeq(attempts, LAMBDA row : row.student_id = student_id /\ row.quiz_id = quiz_id)

\* Database.start_quiz_attempt: count the rows of the pair, insert the next
start_quiz_attempt(attempts, student_id, quiz_id) ==
    LET attempt_number == Len(get_student_quiz_attempts(attempts, student_id, quiz_id)) + 1
        attempt_id == Len(attempts) + 1
    IN  [attempts |-> Append(attempts,
                        [id |-> attempt_id, student_id |-> student_id,
                         quiz_id |-> quiz_id, attempt_number |-> attempt_number,
                         score |-> Zero, total_points |-> Zero, passed |-> 0,
                         submitted |-> FALSE]),
         attempt_id |-> attempt_id]

\* the responses of a submission: question ids of the quiz and an id that
\* is not in it, answer ids of the quiz and 0 for no answer_id
ResponseSet == [question_id : {1, 2, 9}, answer_id : {0, 12, 21}]

ResponseLists == UNION {[1..n -> ResponseSet] : n \in 0..MaxResponses}

\* next((a for a in question['answers'] if a['id'] == answer_id and a['is_correct']), None)
IsCorrect(question, answer_id) ==
    /\ answer_id # 0
    /\ \E k \in 1..Len(question.answers) :
          /\ question.answers[k].id = answer_id
          /\ question.answers[k].is_correct = 1

\* the loop of submit_quiz_attempt over the responses
RECURSIVE EarnedPoints(_, _, _)
EarnedPoints(questions, responses, earned_points) ==
    IF responses = <<>> THEN earned_points
    ELSE LET response == Head(responses)
             question == FetchOne(questions, LAMBDA qu : qu.id = response.question_id)
         IN  IF question = <<>>
             THEN EarnedPoints(questions, Tail(responses), earned_points)
             ELSE IF IsCorrect(question[1], response.answer_id)
                  THEN EarnedPoints(questions, Tail(responses),
                                    FAdd(earned_points, FromInt(question[1].points)))
                  ELSE EarnedPoints(questions, Tail(responses), earned_points)

\* total_points = sum(q['points'] for q in questions)
TotalPoints(questions) ==
    NpSum([k \in 1..Len(questions) |-> FromInt(questions[k].points)], Zero)

\* score = (earned_points / total_points * 100) if total_points > 0 else 0
ScoreOf(earned_points, total_points) ==
    IF FGt(total_points, Zero)
    THEN FMul(FDiv(earned_points, total_points), FromInt(100))
    ELSE Zero

\* Database.submit_quiz_attempt: the returned dict and the table afterwards;
\* dict(cursor.fetchone()) raises TypeError when there is no such attempt
submit_quiz_attempt(q, attempts, attempt_id, responses) ==
    LET attempt == FetchOne(attempts, LAMBDA row : row.id = attempt_id)
    IN  IF attempt = <<>>
        THEN [raised |-> "TypeError", attempts |-> attempts, score |-> Zero,
              total_points |-> Zero, earned_points |-> Zero, passed |-> 0]
        ELSE LET quiz_row == get_quiz(q, attempt[1].quiz_id)[1]
                 questions == get_quiz_questions(q, attempt[1].quiz_id)
                 total_points == TotalPoints(questions)
                 earned_points == EarnedPoints(questions, responses, Zero)
                 score == ScoreOf(earned_points, total_points)
                 passed == IF FLe(quiz_row.passing_score, score) THEN 1 ELSE 0
             IN  [raised |-> "none",
                  attempts |-> [k \in 1..Len(attempts) |->
                                   IF attempts[k].id = attempt_id
                                   THEN [attempts[k] EXCEPT
                                            !.score = score,
                                            !.total_points = total_points,
                                            !.passed = passed,
                                            !.submitted = TRUE]
                                   ELSE attempts[k]],
                  score |-> score, total_points |-> total_points,
                  earned_points |-> earned_points, passed |-> passed]

InitQuiz ==
    /\ \E questions \in QuestionSets, passing_score \in PassingScores :
          quiz = [stage |-> "new",
                  q |-> [questions |-> questions, passing_score |-> passing_score,
                         max_attempts |-> 3],
                  attempts |-> <<>>, submits |-> 0, call |-> "none",
                  attempt_id |-> 0, responses |-> <<>>,
                  result |-> [raised |-> "none"]]
    /\ cold = [stage |-> "idle"]
    /\ proto = [stage |-> "idle"]
    /\ accounts = [stage |-> "idle"]
    /\ forum = [stage |-> "idle"]
    /\ progress = [stage |-> "idle"]
    /\ FEIdle
    /\ PrepIdle
    /\ TrainIdle
    /\ CFIdle
    /\ ExtIdle

StartQuizAttempt ==
    /\ Len(quiz.attempts) < MaxAttemptRows
    /\ \E student_id \in {1} :
          \E r \in {start_quiz_attempt(quiz.attempts, student_id, QuizId)} :
             quiz' = [quiz EXCEPT
                 !.stage = "called", !.call = "start_quiz_attempt",
                 !.attempts = r.attempts, !.attempt_id = r.attempt_id,
                 !.responses = <<>>, !.result = [raised |-> "none"]]
    /\ UNCHANGED <<feVars, prepVars, trainVars, cfVars, extVars, cold, proto,
                   accounts, forum, progress>>

SubmitQuizAttempt ==
    /\ quiz.submits < MaxSubmits
    /\ \E attempt_id \in 1..(Len(quiz.attempts) + 1), responses \in ResponseLists :
          \E r \in {submit_quiz_attempt(quiz.q, quiz.attempts, attempt_id, responses)} :
             quiz' = [quiz EXCEPT
                 !.stage = "called", !.call = "submit_quiz_attempt",
                 !.submits = @ + 1,
                 !.attempts = r.attempts, !.attempt_id = attempt_id,
                 !.responses = responses,
                 !.result = [raised |-> r.raised, score |-> r.score,
                             total_points |-> r.total_points,
                             earned_points |-> r.earned_points,
                             passed |-> r.passed]]
    /\ UNCHANGED <<feVars, prepVars, trainVars, cfVars, extVars, cold, proto,
                   accounts, forum, progress>>

NextQuiz ==
    \/ StartQuizAttempt
    \/ SubmitQuizAttempt

SpecQuiz == InitQuiz /\ [][NextQuiz]_vars

\* ---------------------------------------------------------------------
\* The start-quiz endpoint of api/main.py. The application is served by one
\* uvicorn process (uvicorn.run(app, ...)); start_quiz is an async handler
\* that never awaits, so the event loop runs it from its first statement to
\* its response before it takes up another request.
\* ---------------------------------------------------------------------

\* quiz ids of the requests: the quiz and an id without a row
RequestQuizIds == {QuizId, 9}

\* a handler that gives up the loop between its statements
LoopFree_yielding(running) == TRUE

\* the event loop takes up a request only when no handler is running
LoopFree(running) == running = 0

\* if len(attempts) >= quiz['max_attempts']: raise HTTPException(400)
AttemptsLeft(attempts, quiz_row) == ~(Len(attempts) >= quiz_row.max_attempts)

\* start_quiz up to its check: the response status, or 0 when the handler
\* goes on to start_quiz_attempt
start_quiz_check(q, attempts, student_id, quiz_id) ==
    IF get_quiz(q, quiz_id) = <<>> THEN 404
    ELSE IF ~AttemptsLeft(get_student_quiz_attempts(attempts, student_id, quiz_id),
                          get_quiz(q, quiz_id)[1])
         THEN 400
         ELSE 0

InitStart ==
    /\ \E max_attempts \in {1, 2} :
          quiz = [stage |-> "serving",
                  q |-> [questions |-> <<>>, passing_score |-> FromInt(50),
                         max_attempts |-> max_attempts],
                  attempts |-> <<>>, requests |-> <<>>, running |-> 0,
                  concurrent |-> FALSE]
    /\ cold = [stage |-> "idle"]
    /\ proto = [stage |-> "idle"]
    /\ accounts = [stage |-> "idle"]
    /\ forum = [stage |-> "idle"]
    /\ progress = [stage |-> "idle"]
    /\ FEIdle
    /\ PrepIdle
    /\ TrainIdle
    /\ CFIdle
    /\ ExtIdle

\* the request has not been answered yet
Unanswered(request) == request.status = 0

\* a POST /api/quizzes/{quiz_id}/start arrives; concurrent records that two
\* requests of one student for one quiz were unanswered at the same time
ReceiveStart ==
    /\ Len(quiz.requests) < MaxRequests
    /\ \E student_id \in QuizStudents, quiz_id \in RequestQuizIds :
          quiz' = [quiz EXCEPT
              !.requests = Append(@, [student_id |-> student_id, quiz_id |-> quiz_id,
                                      pc |-> "received", status |-> 0,
                                      attempt_id |-> 0]),
              !.concurrent = @ \/ \E k \in 1..Len(quiz.requests) :
                                     /\ Unanswered(quiz.requests[k])
                                     /\ quiz.requests[k].student_id = student_id
                                     /\ quiz.requests[k].quiz_id = quiz_id]
    /\ UNCHANGED <<feVars, prepVars, trainVars, cfVars, extVars, cold, proto,
                   accounts, forum, progress>>

\* the loop takes up a request: get_quiz, get_student_quiz_attempts and the
\* comparison with max_attempts
StartQuizCheck ==
    /\ LoopFree(quiz.running)
    /\ \E p \in 1..Len(quiz.requests) :
          /\ quiz.requests[p].pc = "received"
          /\ \E status \in {start_quiz_check(quiz.q, quiz.attempts,
                                             quiz.requests[p].student_id,
                                             quiz.requests[p].quiz_id)} :
                quiz' = [quiz EXCEPT
                    !.requests[p].pc = IF status = 0 THEN "checked" ELSE "done",
                    !.requests[p].status = status,
                    !.running = IF status = 0 THEN p ELSE 0]
    /\ UNCHANGED <<feVars, prepVars, trainVars, cfVars, extVars, cold, proto,
                   accounts, forum, progress>>

\* the handler goes on: db.start_quiz_attempt and the 200 response
StartQuizInsert ==
    /\ \E p \in 1..Len(quiz.requests) :
          /\ quiz.requests[p].pc = "checked"
          /\ \E r \in {start_quiz_attempt(quiz.attempts, quiz.requests[p].student_id,
                                          quiz.requests[p].quiz_id)} :
                quiz' = [quiz EXCEPT
                    !.attempts = r.attempts,
                    !.requests[p].pc = "done",
                    !.requests[p].status = 200,
                    !.requests[p].attempt_id = r.attempt_id,
                    !.running = 0]
    /\ UNCHANGED <<feVars, prepVars, trainVars, cfVars, extVars, cold, proto,
                   accounts, forum, progress>>

NextStart ==
    \/ ReceiveStart
    \/ StartQuizCheck
    \/ StartQuizInsert

SpecStart == InitStart /\ [][NextStart]_vars

\* ---------------------------------------------------------------------
\* Forum votes: Database.vote_forum_post and its endpoint. The forum_votes
\* table is read and written by post_id, student_id and vote_type; no
\* CREATE TABLE for it is part of setup_database, so a database may lack it.
\* ---------------------------------------------------------------------
ForumPosts == {1, 2}

ForumStudents == {1, 2}

VoteTypes == {"like", "dislike"}

\* DELETE FROM forum_votes WHERE post_id = ? AND student_id = ?
DeleteVotes(votes, post_id, student_id) ==
    SelectSeq(votes, LAMBDA row : ~(row.post_id = post_id /\ row.student_id = student_id))

\* a vote that is added without removing the student's earlier vote
vote_forum_post_no_delete(votes, post_id, student_id, vote_type) ==
    Append(votes, [post_id |-> post_id, student_id |-> student_id,
                   vote_type |-> vote_type])

\* Database.vote_forum_post on a database that has the table: the rows of
\* forum_votes after the call
vote_forum_post(votes, post_id, student_id, vote_type) ==
    LET existing_vote == FetchOne(votes, LAMBDA row : /\ row.post_id = post_id
                                                      /\ row.student_id = student_id)
    IN  IF existing_vote # <<>> /\ existing_vote[1].vote_type = vote_type
        THEN DeleteVotes(votes, post_id, student_id)
        ELSE Append(DeleteVotes(votes, post_id, student_id),
                    [post_id |-> post_id, student_id |-> student_id,
                     vote_type |-> vote_type])

NoCall == [post_id |-> 0, student_id |-> 0, vote_type |-> "none"]

InitForum ==
    /\ \E has_table \in BOOLEAN :
          forum = [stage |-> "new", has_table |-> has_table, votes |-> <<>>,
                   calls |-> 0, request |-> NoCall, status |-> 0,
                   before |-> <<>>, previous |-> NoCall, before_previous |-> <<>>]
    /\ cold = [stage |-> "idle"]
    /\ proto = [stage |-> "idle"]
    /\ accounts = [stage |-> "idle"]
    /\ quiz = [stage |-> "idle"]
    /\ progress = [stage |-> "idle"]
    /\ FEIdle
    /\ PrepIdle
    /\ TrainIdle
    /\ CFIdle
    /\ ExtIdle

\* POST /api/forum/posts/{post_id}/vote: 200, or 500 when the statement
\* fails with sqlite3.OperationalError (no such table)
VoteForumPost ==
    /\ forum.calls < MaxVotes
    /\ \E post_id \in ForumPosts, student_id \in ForumStudents, vote_type \in VoteTypes :
          forum' = [forum EXCEPT
              !.stage = "called", !.calls = @ + 1,
              !.request = [post_id |-> post_id, student_id |-> student_id,
                           vote_type |-> vote_type],
              !.status = IF forum.has_table THEN 200 ELSE 500,
              !.votes = IF forum.has_table
                        THEN vote_forum_post(@, post_id, student_id, vote_type)
                        ELSE @,
              !.before = forum.votes,
              !.previous = forum.request,
              !.before_previous = forum.before]
    /\ UNCHANGED <<feVars, prepVars, trainVars, cfVars, extVars, cold, proto,
                   accounts, quiz, progress>>

NextForum == VoteForumPost

SpecForum == InitForum /\ [][NextForum]_vars

\* ---------------------------------------------------------------------
\* Progress tracking: the student_progress table of database/models.py,
\* update_student_progress, update_video_progress, save_quiz_result and
\* can_mark_lesson_complete
\* ---------------------------------------------------------------------

\* the lessons table: a video lesson and a reading lesson of course 1
LessonType == [l \in {1, 2} |-> IF l = 1 THEN "video" ELSE "reading"]

ProgressStudents == {1, 2}

CourseId == 1

\* SELECT ... WHERE student_id = ? AND course_id = ? AND lesson_id = ?
SameKey(row, student_id, course_id, lesson_id) ==
    /\ row.student_id = student_id
    /\ row.course_id = course_id
    /\ row.lesson_id = lesson_id

\* INSERT OR REPLACE under UNIQUE(student_id, course_id, lesson_id): the row
\* in conflict is deleted and the new row is inserted
InsertOrReplace(rows, new_row) ==
    Append(SelectSeq(rows, LAMBDA row : ~SameKey(row, new_row.student_id,
                                                  new_row.course_id, new_row.lesson_id)),
           new_row)

\* a row with the column defaults of the table
DefaultRow(student_id, course_id, lesson_id) ==
    [student_id |-> student_id, course_id |-> course_id, lesson_id |-> lesson_id,
     completed |-> 0, progress_percent |-> Zero, time_spent_minutes |-> 0,
     video_watch_time |-> 0, video_duration |-> 0, watch_percentage |-> Zero]

\* Database.update_student_progress
update_student_progress(rows, student_id, course_id, lesson_id, progress_percent, completed) ==
    InsertOrReplace(rows,
        [DefaultRow(student_id, course_id, lesson_id) EXCEPT
            !.completed = IF completed THEN 1 ELSE 0,
            !.progress_percent = progress_percent])

\* watch_percentage = (watch_time / video_duration * 100) if video_duration > 0 else 0
WatchPercentage(watch_time, video_duration) ==
    IF video_duration > 0
    THEN FMul(FDiv(FromInt(watch_time), FromInt(video_duration)), FromInt(100))
    ELSE Zero

\* watch_percentage >= 80
CanComplete(watch_percentage) == FLe(FromInt(80), watch_percentage)

\* Database.update_video_progress
update_video_progress(rows, student_id, course_id, lesson_id, watch_time, video_duration) ==
    InsertOrReplace(rows,
        [DefaultRow(student_id, course_id, lesson_id) EXCEPT
            !.video_watch_time = watch_time,
            !.video_duration = video_duration,
            !.watch_percentage = WatchPercentage(watch_time, video_duration),
            !.completed = IF CanComplete(WatchPercentage(watch_time, video_duration))
                          THEN 1 ELSE 0,
            !.progress_percent = WatchPercentage(watch_time, video_duration)])

\* Database.save_quiz_result after its INSERT INTO quiz_results:
\* UPDATE student_progress SET completed = 1, progress_percent = 100.0
\* WHERE student_id = ? AND lesson_id = ?
save_quiz_result(rows, student_id, lesson_id, passed) ==
    IF passed
    THEN [k \in 1..Len(rows) |->
             IF rows[k].student_id = student_id /\ rows[k].lesson_id = lesson_id
             THEN [rows[k] EXCEPT !.completed = 1, !.progress_percent = FromInt(100)]
             ELSE rows[k]]
    ELSE rows

\* Database.can_mark_lesson_complete: the can_complete of the returned dict
can_mark_lesson_complete(rows, student_id, lesson_id) ==
    IF lesson_id \notin DOMAIN LessonType THEN FALSE
    ELSE LET result == FetchOne(rows, LAMBDA row : /\ row.lesson_id = lesson_id
                                                   /\ row.student_id = student_id)
             watch_percentage == IF result = <<>> THEN Zero
                                 ELSE result[1].watch_percentage
         IN  IF LessonType[lesson_id] = "video"
             THEN CanComplete(watch_percentage)
             ELSE TRUE

InitProgress ==
    /\ \E has_quiz_results \in BOOLEAN :
          progress = [stage |-> "new", has_quiz_results |-> has_quiz_results,
                      rows |-> <<>>, ops |-> 0, call |-> "none",
                      student_id |-> 0, lesson_id |-> 0, before |-> <<>>,
                      can_complete |-> FALSE, raised |-> "none"]
    /\ cold = [stage |-> "idle"]
    /\ proto = [stage |-> "idle"]
    /\ accounts = [stage |-> "idle"]
    /\ quiz = [stage |-> "idle"]
    /\ forum = [stage |-> "idle"]
    /\ FEIdle
    /\ PrepIdle
    /\ TrainIdle
    /\ CFIdle
    /\ ExtIdle

\* the fields every call records
Called(method, student_id, lesson_id, rows, can_complete, raised) ==
    [progress EXCEPT
        !.stage = "called", !.ops = @ + 1, !.call = method,
        !.student_id = student_id, !.lesson_id = lesson_id,
        !.before = progress.rows, !.rows = rows,
        !.can_complete = can_complete, !.raised = raised]

UpdateStudentProgress ==
    /\ progress.ops < MaxOps
    /\ \E student_id \in ProgressStudents, lesson_id \in DOMAIN LessonType,
          progress_percent \in {FromInt(50), FromInt(100)}, completed \in BOOLEAN :
          progress' = Called("update_student_progress", student_id, lesson_id,
                             update_student_progress(progress.rows, student_id, CourseId,
                                                     lesson_id, progress_percent, completed),
                             FALSE, "none")
    /\ UNCHANGED <<feVars, prepVars, trainVars, cfVars, extVars, cold, proto,
                   accounts, quiz, forum>>

UpdateVideoProgress ==
    /\ progress.ops < MaxOps
    /\ \E student_id \in ProgressStudents, lesson_id \in DOMAIN LessonType,
          watch_time \in {0, 3, 4}, video_duration \in {0, 4} :
          progress' = Called("update_video_progress", student_id, lesson_id,
                             update_video_progress(progress.rows, student_id, CourseId,
                                                   lesson_id, watch_time, video_duration),
                             FALSE, "none")
    /\ UNCHANGED <<feVars, prepVars, trainVars, cfVars, extVars, cold, proto,
                   accounts, quiz, forum>>

\* without a quiz_results table the INSERT raises before the UPDATE
SaveQuizResult ==
    /\ progress.ops < MaxOps
    /\ \E student_id \in ProgressStudents, lesson_id \in DOMAIN LessonType,
          passed \in BOOLEAN :
          progress' = IF progress.has_quiz_results
                      THEN Called("save_quiz_result", student_id, lesson_id,
                                  save_quiz_result(progress.rows, student_id,
                                                   lesson_id, passed),
                                  FALSE, "none")
                      ELSE Called("save_quiz_result", student_id, lesson_id,
                                  progress.rows, FALSE, "OperationalError")
    /\ UNCHANGED <<feVars, prepVars, trainVars, cfVars, extVars, cold, proto,
                   accounts, quiz, forum>>

CanMarkLessonComplete ==
    /\ progress.ops < MaxOps
    /\ \E student_id \in ProgressStudents, lesson_id \in DOMAIN LessonType \cup {9} :
          progress' = Called("can_mark_lesson_complete", student_id, lesson_id,
                             progress.rows,
                             can_mark_lesson_complete(progress.rows, student_id, lesson_id),
                             "none")
    /\ UNCHANGED <<feVars, prepVars, trainVars, cfVars, extVars, cold, proto,
                   accounts, quiz, forum>>

NextProgress ==
    \/ UpdateStudentProgress
    \/ UpdateVideoProgress
    \/ SaveQuizResult
    \/ CanMarkLessonComplete

SpecProgress == InitProgress /\ [][NextProgress]_vars

\* ------------------------------------------------------------------------
\* Exact comparisons of float values, used to state properties only
\* ------------------------------------------------------------------------
\* |a - b| as an exact <<n, e>>
ExactDist(a, b) ==
    LET e == Min2(a[2], b[2])
    IN <<Abs(a[1] * Pow2(a[2] - e) - b[1] * Pow2(b[2] - e)), e>>

\* a <= b for exact non-negative <<n, e>>
ExactLeq(a, b) ==
    LET e == Min2(a[2], b[2])
    IN a[1] * Pow2(a[2] - e) <= b[1] * Pow2(b[2] - e)

ExactMaxAbs(a, b) ==
    IF ExactLeq(<<Abs(a[1]), a[2]>>, <<Abs(b[1]), b[2]>>)
    THEN <<Abs(b[1]), b[2]>> ELSE <<Abs(a[1]), a[2]>>

\* |a - b| <= 2^(3 - Precision) * max(|x|, |m|)
WithinRounding(a, b, x, m) ==
    LET bound == ExactMaxAbs(x, m)
    IN ExactLeq(ExactDist(a, b), <<bound[1], bound[2] + 3 - Precision>>)

StdOf(i, f) == df.rows[i].num[z_score_params[f].std_col]

MeanOf(i, f) == df.rows[i].num[z_score_params[f].mean_col]

SameCohort(i, j) ==
    /\ df.rows[j].cat["code_module"] = df.rows[i].cat["code_module"]
    /\ df.rows[j].cat["code_presentation"] = df.rows[i].cat["code_presentation"]

\* the values of feature f over the rows of row i's own cohort, in row order
OwnCohort(i, f) ==
    LET idx == SelectSeq([j \in 1..NRows(df) |-> j], LAMBDA j : SameCohort(i, j))
    IN [k \in 1..Len(idx) |-> df.rows[idx[k]].num[f]]

\* C1 (as stated): for every standardized feature and every row whose cohort
\* std is greater than 0, convert_zscore_to_raw(z, mean, std) is exactly the
\* row's raw value.
C1_RoundTripExact ==
    \A f \in DOMAIN raw_value : \A i \in 1..NRows(df) :
        FGt(StdOf(i, f), Zero) => raw_value[f][i] = df.rows[i].num[f]

\* C1 (amended): for every standardized feature and every row whose cohort
\* std is greater than 0, convert_zscore_to_raw(z, mean, std) reproduces the
\* raw value up to floating-point rounding: a missing raw value stays
\* missing, and otherwise the result differs from the raw value by at most
\* 2^(3 - Precision) * max(|raw|, |mean|).
C1_RoundTripWithinRounding ==
    \A f \in DOMAIN raw_value : \A i \in 1..NRows(df) :
        FGt(StdOf(i, f), Zero) =>
            LET x == df.rows[i].num[f]
                r == raw_value[f][i]
            IN IF IsNaN(x) THEN IsNaN(r)
               ELSE ~IsNaN(r) /\ WithinRounding(r, x, x, MeanOf(i, f))

\* a conversion has run on a row with std > 0 and a non-zero z-score, and did
\* not give back the raw value bit for bit
C1_Witness ==
    /\ raw_value # NoFn
    /\ \E f \in DOMAIN raw_value : \E i \in 1..NRows(df) :
          /\ FGt(StdOf(i, f), Zero)
          /\ df.rows[i].num[f \o "_z"] \notin {Zero, NaN}
          /\ raw_value[f][i] # df.rows[i].num[f]

\* C2: every z-score is computed against the mean and std of the row's own
\* (code_module, code_presentation) cohort: (x - mean) / std when that std is
\* greater than 0, and exactly 0 when it is 0 or undefined.
C2_CohortZScore ==
    stage = "zscored" =>
        \A f \in DOMAIN z_score_params : \A i \in 1..NRows(df) :
            \* i: the first row of its cohort
            (\A h \in 1..(i - 1) : ~SameCohort(i, h)) =>
                LET own == OwnCohort(i, f)
                    mean == GroupMean(own)
                    std == GroupStd(own)
                IN \A j \in 1..NRows(df) :
                      SameCohort(i, j) =>
                          /\ MeanOf(j, f) = mean
                          /\ StdOf(j, f) = std
                          /\ df.rows[j].num[f \o "_z"] =
                                IF ~IsNaN(std) /\ std[1] > 0
                                THEN FDiv(FAdd(df.rows[j].num[f], FNeg(mean)), std)
                                ELSE Zero

\* one row has a non-zero z-score in a cohort with std > 0, and another row is
\* alone in its cohort (undefined std, z-score 0) although the feature varies
\* over the whole table
C2_Witness ==
    /\ stage = "zscored"
    /\ \E f \in DOMAIN z_score_params :
          /\ \E i \in 1..NRows(df) :
                FGt(StdOf(i, f), Zero) /\ df.rows[i].num[f \o "_z"] \notin {Zero, NaN}
          /\ \E j \in 1..NRows(df) :
                /\ IsNaN(StdOf(j, f))
                /\ df.rows[j].num[f \o "_z"] = Zero
                /\ ~IsNaN(df.rows[j].num[f])
                /\ FGt(GroupStd(Col(df, f)), Zero)

\* C3: a call of apply_zscore_standardization raises nothing, gives every
\* listed feature that exists in the table a '<feature>_z' column and a
\* z_score_params entry, gives the listed features that are missing neither,
\* and keeps the rows: same number, same order, every earlier cell unchanged.
C3_ZscoreColumnsAndRows ==
    [][stage = "derived" /\ stage' # "derived" =>
          /\ exc' = "none"
          /\ \A k \in 1..Len(features_arg') :
                LET f == features_arg'[k]
                IN IF HasCol(df, f)
                   THEN HasCol(df', f \o "_z") /\ f \in DOMAIN z_score_params'
                        /\ (f \o "_z") \in df'.num
                   ELSE ~HasCol(df', f \o "_z") /\ f \notin DOMAIN z_score_params'
          /\ NRows(df') = NRows(df)
          /\ \A i \in 1..NRows(df) :
                /\ df'.rows[i].cat = df.rows[i].cat
                /\ \A c \in df.num : df'.rows[i].num[c] = df.rows[i].num[c]]_vars

\* a z-score call whose list named a missing feature and an existing one, on
\* a table where two rows share a cohort
C3_Witness ==
    /\ stage = "zscored"
    /\ \E k \in 1..Len(features_arg) : ~HasCol(df, features_arg[k])
    /\ \E k \in 1..Len(features_arg) : HasCol(df, features_arg[k] \o "_z")
    /\ \E i, j \in 1..NRows(df) : i # j /\ groupby_cols(df.rows[i]) = groupby_cols(df.rows[j])

\* the feature has at most one distinct non-missing value in row i's cohort
ZeroVariance(i, f) == NUnique(OwnCohort(i, f)) <= 1

\* C4: a '_z' feature of a cohort in which the feature has zero variance is
\* either dropped by prepare_modeling_data or is exactly 0 in every row of
\* that cohort.
C4_ZeroVarianceIsZero ==
    stage = "prepared" =>
        \A f \in DOMAIN z_score_params : \A i \in 1..NRows(df) :
            ZeroVariance(i, f) =>
                \/ (f \o "_z") \notin Range(valid_features)
                \/ final_df.rows[i].num[f \o "_z"] = Zero

\* a kept '_z' feature is 0 in a row whose cohort has zero variance for it
\* (and a non-zero raw value), next to a cohort where it varies
C4_Witness ==
    /\ stage = "prepared"
    /\ \E f \in DOMAIN z_score_params :
          /\ (f \o "_z") \in Range(valid_features)
          /\ \E i, j \in 1..NRows(df) :
                /\ ZeroVariance(i, f)
                /\ df.rows[i].num[f] \notin {Zero, NaN}
                /\ final_df.rows[i].num[f \o "_z"] = Zero
                /\ ~ZeroVariance(j, f)
                /\ final_df.rows[j].num[f \o "_z"] # Zero

\* C5: the feature list of prepare_modeling_data has no duplicates, holds only
\* columns with a non-missing value and more than one distinct value over the
\* whole table, and the returned table has no missing value in them.
C5_ValidFeatures ==
    stage = "prepared" =>
        /\ \A a, b \in 1..Len(valid_features) :
              valid_features[a] = valid_features[b] => a = b
        /\ \A a \in 1..Len(valid_features) :
              LET present == {df.rows[i].num[valid_features[a]] : i \in 1..NRows(df)} \ {NaN}
              IN Cardinality(present) > 1
        /\ \A a \in 1..Len(valid_features) : \A i \in 1..NRows(final_df) :
              final_df.rows[i].num[valid_features[a]] # NaN
        /\ NRows(final_df) = NRows(df)

\* a column matched twice (z-score and behavioral list) is kept once, a
\* constant column is dropped, and a missing z-score was filled with 0
C5_Witness ==
    /\ stage = "prepared"
    /\ "submission_rate_z" \in Range(valid_features)
    /\ \E c \in Range(df.cols) : IsZScoreFeature(c) /\ c \notin Range(valid_features)
    /\ \E a \in 1..Len(valid_features) : \E i \in 1..NRows(df) :
          /\ IsNaN(df.rows[i].num[valid_features[a]])
          /\ final_df.rows[i].num[valid_features[a]] = Zero

\* ------------------------------------------------------------------------
\* Labels of the preprocessing run
\* ------------------------------------------------------------------------
\* the label the documentation gives a final_result value
ExpectedLabel(final_result) ==
    IF final_result = "Fail" \/ final_result = "Withdrawn" THEN One ELSE Zero

LabelsFollowFinalResult(t) ==
    \A i \in 1..NRows(t) :
        t.rows[i].num["is_at_risk"] = ExpectedLabel(t.rows[i].cat["final_result"])

NumAtRisk(t) == Cardinality({i \in 1..NRows(t) : t.rows[i].num["is_at_risk"] = One})

\* C6: for every student row is_at_risk is 1 exactly when final_result is
\* 'Fail' or 'Withdrawn' and 0 for every other value, a missing one included;
\* the loader's table and the preprocessor's table carry the same labels.
C6_LabelIffFailOrWithdrawn ==
    /\ loader_df # EmptyTable => LabelsFollowFinalResult(loader_df)
    /\ merged_df # EmptyTable => LabelsFollowFinalResult(merged_df)
    /\ (loader_df # EmptyTable /\ merged_df # EmptyTable) =>
          /\ NRows(loader_df) = NRows(merged_df)
          /\ \A i \in 1..NRows(loader_df) :
                loader_df.rows[i].num["is_at_risk"] = merged_df.rows[i].num["is_at_risk"]

\* both tables are labelled; a student with a missing or Distinction result
\* is labelled 0 next to a withdrawn student labelled 1
C6_Witness ==
    /\ loader_df # EmptyTable
    /\ merged_df # EmptyTable
    /\ \E i, j \in 1..NRows(merged_df) :
          /\ merged_df.rows[i].cat["final_result"] \in {"nan", "Distinction"}
          /\ merged_df.rows[i].num["is_at_risk"] = Zero
          /\ loader_df.rows[i].num["is_at_risk"] = Zero
          /\ merged_df.rows[j].cat["final_result"] = "Withdrawn"
          /\ merged_df.rows[j].num["is_at_risk"] = One
          /\ loader_df.rows[j].num["is_at_risk"] = One

\* the rows of t are the studentInfo rows, in order, with their labels
SameRowsAndLabels(t) ==
    /\ NRows(t) = NRows(data.studentInfo)
    /\ \A i \in 1..NRows(t) :
          /\ t.rows[i].num["id_student"] = data.studentInfo.rows[i].num["id_student"]
          /\ t.rows[i].num["is_at_risk"] =
                ExpectedLabel(data.studentInfo.rows[i].cat["final_result"])
    /\ NumAtRisk(t) =
          Cardinality({i \in 1..NRows(data.studentInfo) :
              data.studentInfo.rows[i].cat["final_result"] \in {"Fail", "Withdrawn"}})

\* C7: from the studentInfo rows through merge_all_tables, engineer_features
\* and prepare_modeling_data the number of student rows and each row's
\* is_at_risk are unchanged, so the modeling table has as many at-risk rows
\* as the input has Fail/Withdrawn rows.
C7_RowsAndLabelsPreserved ==
    /\ stage \in {"merged", "zscored", "prepared"} => SameRowsAndLabels(merged_df)
    /\ stage \in {"zscored", "prepared"} => SameRowsAndLabels(df)
    /\ stage = "prepared" => SameRowsAndLabels(final_df)

\* a modeling table built from both kinds of students: an at-risk student
\* without any activity row (zero-filled) and a safe student with activity,
\* while the activity tables also hold rows of a student not in studentInfo
C7_Witness ==
    /\ stage = "prepared"
    /\ loader_df = EmptyTable
    /\ \E e \in Range(data.studentVle) : e.id_student = FromInt(7)
    /\ \E i, j \in 1..NRows(final_df) :
          /\ final_df.rows[i].num["is_at_risk"] = One
          /\ merged_df.rows[i].num["num_assessments"] = Zero
          /\ merged_df.rows[i].num["num_days_active"] = Zero
          /\ final_df.rows[j].num["is_at_risk"] = Zero
          /\ FGt(merged_df.rows[j].num["num_assessments"], Zero)

\* ------------------------------------------------------------------------
\* Model selection
\* ------------------------------------------------------------------------
\* the mean cross-validated F1 of each candidate named name in the results
F1Of(results, name) ==
    {results[k].metrics["f1"] : k \in {j \in 1..Len(results) : results[j].name = name}}

\* what a call of select_best_model on a non-empty results table must leave:
\* a returned candidate of the table that no candidate beats on F1, refitted
SelectedBest(tr) ==
    /\ tr.exc = "none"
    /\ Len(tr.returned) = 2
    /\ F1Of(tr.results, tr.returned[1]) # {}
    /\ \A k \in 1..Len(tr.results) :
          \A best \in F1Of(tr.results, tr.returned[1]) :
              ~FGt(tr.results[k].metrics["f1"], best)
    /\ tr.returned[2] = Model(tr.returned[1], TRUE)
    /\ tr.best_model = tr.returned[2]
    /\ tr.best_model_name = tr.returned[1]
    /\ \E k \in 1..Len(tr.models) : tr.models[k] = tr.returned[2]

\* what train_models must leave on disk: the selected model under its name
PersistedBest(tr) ==
    /\ tr.exc = "none"
    /\ tr.best_model_name \in ModelNames(tr.models)
    /\ \A k \in 1..Len(tr.results) :
          \A best \in F1Of(tr.results, tr.best_model_name) :
              ~FGt(tr.results[k].metrics["f1"], best)
    /\ tr.saved = [model |-> Model(tr.best_model_name, TRUE),
                   model_name |-> tr.best_model_name,
                   results |-> tr.results]

\* C8: for every results table (all-zero, tied or undefined F1 included)
\* select_best_model returns a candidate whose mean F1 no other candidate
\* exceeds and refits that candidate, and train_models persists exactly that
\* model under that name.
C8_SelectsAndPersistsBest ==
    /\ (trainer.call = "select_best_model" /\ Len(trainer.results) > 0) =>
          SelectedBest(trainer)
    /\ trainer.call = "train_models" => PersistedBest(trainer)

\* ------------------------------------------------------------------------
\* Counterfactual features
\* ------------------------------------------------------------------------
\* the features on which a counterfactual row differs from the instance
Differing(result, k) ==
    {f \in Range(feature_names) :
        result.counterfactuals[k].counterfactual_values[f] # result.original_instance[f]}

\* C10: in every counterfactual produced through
\* generate_counterfactual_advice only features of the
\* get_actionable_features whitelist differ from the student's vector and no
\* demographic feature differs, whatever the feature list, one with an empty
\* whitelist included.
C10_OnlyActionableVaried ==
    cf_stage = "advice" =>
        \A i \in 1..Len(counterfactuals) :
            \A k \in 1..Len(counterfactuals[i].counterfactuals) :
                \A f \in Differing(counterfactuals[i], k) :
                    /\ f \in Range(get_actionable_features(feature_names))
                    /\ ~IsDemographic(f)

\* ------------------------------------------------------------------------
\* Counterfactual batch
\* ------------------------------------------------------------------------
\* the students a returned list holds results for
InstanceIdx(results) == {results[k].instance_idx : k \in 1..Len(results)}

AtRiskSet == {i \in 1..Len(y_pred) : y_pred[i] = 1}

\* C11: the list generate_for_atrisk_students returns holds one result per
\* selected student, for at most n_students students, all distinct and all
\* predicted at-risk; it is empty when no student is predicted at-risk and
\* covers every at-risk student when there are no more than n_students.
C11_BoundedDistinctAtRisk ==
    (cf_stage \in {"generated", "advice"} /\ cf_exc = "none") =>
        /\ Len(counterfactuals) <= n_students
        /\ Cardinality(InstanceIdx(counterfactuals)) = Len(counterfactuals)
        /\ InstanceIdx(counterfactuals) \subseteq AtRiskSet
        /\ AtRiskSet = {} => counterfactuals = <<>>
        /\ Cardinality(AtRiskSet) <= n_students => InstanceIdx(counterfactuals) = AtRiskSet
        /\ Cardinality(AtRiskSet) > n_students => Len(counterfactuals) = n_students

\* a sample of two out of three at-risk students, in an order other than
\* that of the table
C11_Witness ==
    /\ cf_stage = "generated"
    /\ cf_exc = "none"
    /\ Cardinality(AtRiskSet) = 3
    /\ n_students = 2
    /\ Len(counterfactuals) = 2
    /\ counterfactuals[1].instance_idx > counterfactuals[2].instance_idx

\* C12: generate_counterfactuals never raises, so a generation call ends
\* without an exception, with one result per sampled student, and a result
\* without counterfactual has found = False, an empty list and the instance.
C12_NeverRaises ==
    cf_stage \in {"generated", "advice"} =>
        /\ cf_exc = "none"
        /\ Len(counterfactuals) = Min2(n_students, Cardinality(AtRiskSet))
        /\ \A k \in 1..Len(counterfactuals) :
              /\ counterfactuals[k].original_instance = Instance(feature_names)
              /\ counterfactuals[k].found = (Len(counterfactuals[k].counterfactuals) > 0)

\* ------------------------------------------------------------------------
\* LLM advice
\* ------------------------------------------------------------------------
\* whether json.dumps takes the i-th student's data, so that a prompt exists
PromptBuilt(i) ==
    /\ Serializable(DictGet(advisor.students[i], "original_instance", <<>>))
    /\ Serializable(FirstChanges(DictGet(advisor.students[i], "counterfactuals", <<>>)))

\* whether the JSON payload of the i-th answer decodes
Decodes(i) == json_loads(json_str(advisor.outcomes[i].text)).ok

BatchKeepsOrder ==
    /\ Len(advisor.advice) = Len(advisor.students)
    /\ \A i \in 1..Len(advisor.students) :
          /\ advisor.advice[i].student_idx =
                DictGet(advisor.students[i], "instance_idx", i - 1)
          /\ (advisor.calls[i] = 1 /\ advisor.outcomes[i].raised) =>
                "error" \in DOMAIN advisor.advice[i]
          /\ (advisor.calls[i] = 1 /\ advisor.outcomes[i].text = <<"{}">>) =>
                advisor.advice[i].success

\* C14 as stated: generate_batch_advice makes exactly one LLM call per
\* student, a failure does not stop the loop, and the result holds one advice
\* per input student in input order, tagged with the student's index.
C14_ExactlyOneCall ==
    advisor.stage = "batch" =>
        /\ \A i \in 1..Len(advisor.students) : advisor.calls[i] = 1
        /\ BatchKeepsOrder

\* C14: generate_batch_advice makes at most one LLM call per student,
\* exactly one when the student's prompt can be built, never a second one
\* after a failure; a failure does not stop the loop, and the result holds one
\* advice per input student in input order, tagged with the student's
\* instance_idx or, without one, its position.
C14_AtMostOneCall ==
    advisor.stage = "batch" =>
        /\ \A i \in 1..Len(advisor.students) :
              advisor.calls[i] = (IF PromptBuilt(i) THEN 1 ELSE 0)
        /\ BatchKeepsOrder

\* two students: the first one's call fails, the second one's succeeds
C14_Witness ==
    /\ advisor.stage = "batch"
    /\ advisor.calls = <<1, 1>>
    /\ advisor.outcomes[1].raised
    /\ "error" \in DOMAIN advisor.advice[1]
    /\ advisor.advice[2].success

\* ------------------------------------------------------------------------
\* Explanations
\* ------------------------------------------------------------------------
\* the call met a missing library or an explainer that cannot be created
Degraded ==
    \/ /\ xai.call \in {"explain_model_globally", "calculate_shap_values"}
       /\ \/ ~xai.SHAP_AVAILABLE
          \/ ~xai.tree_ok /\ ~xai.kernel_ok /\ xai.explainer = "None"
    \/ /\ xai.call = "generate_anchor_explanations"
       /\ \/ ~xai.anchor_installed
          \/ ~xai.anchor_ok /\ xai.any_atrisk

\* C15: when the SHAP or Anchor library is unavailable or the explainer
\* cannot be created, explain_model_globally, generate_anchor_explanations
\* and any call of calculate_shap_values give their caller None, not an
\* exception.
C15_DegradesGracefully ==
    (xai.stage = "called" /\ Degraded) =>
        /\ xai.exc = "none"
        /\ xai.returned \in {<<"None">>, <<"None", "None">>}

\* ------------------------------------------------------------------------
\* Candidate models
\* ------------------------------------------------------------------------
\* C16: initialize_models never fails and yields Logistic Regression, Random
\* Forest and SVM, with CatBoost exactly when CatBoost is installed and
\* XGBoost exactly when XGBoost is installed.
C16_OptionalModels ==
    trainer.call \in {"initialize_models", "train_with_cross_validation", "train_models"} =>
        /\ trainer.exc # "ImportError"
        /\ ModelNames(trainer.models) =
              {"Logistic Regression", "Random Forest", "SVM"}
              \cup (IF catboost_installed THEN {"CatBoost"} ELSE {})
              \cup (IF xgboost_installed THEN {"XGBoost"} ELSE {})

RECURSIVE MaxAbsScore(_)
MaxAbsScore(scores) ==
    IF Len(scores) = 0 THEN <<0, 0>>
    ELSE ExactMaxAbs(Head(scores), MaxAbsScore(Tail(scores)))

\* |a - b| <= factor * AggFolds * 2^(-Precision) * max |score|
WithinFoldRounding(a, b, factor, scores) ==
    \/ a = b
    \/ /\ ~IsNaN(a)
       /\ ~IsNaN(b)
       /\ \E bound \in {MaxAbsScore(scores)} :
             ExactLeq(ExactDist(a, b),
                      <<factor * AggFolds * bound[1], bound[2] - Precision>>)

\* C18 (as stated): any permutation of the fold order yields the same reported
\* mean and std for every metric
C18_SameSummaryAnyFoldOrder ==
    agg.stage = "aggregated" => agg.reordered = agg.results

\* C18 (amended): a permutation of the fold order changes a reported mean by at
\* most 2 * n_folds * 2^-p * max|score| and a reported std by at most
\* 8 * n_folds * 2^-p * max|score|, p the bits of the significand; a failed
\* fold makes both missing in every order
C18_SummaryWithinRounding ==
    agg.stage = "aggregated" =>
        \A m \in Range(scoring) :
            /\ WithinFoldRounding(agg.reordered[m], agg.results[m], 2, agg.scores)
            /\ WithinFoldRounding(agg.reordered[m \o "_std"], agg.results[m \o "_std"],
                                  8, agg.scores)
            /\ IsNaN(agg.reordered[m]) <=> IsNaN(agg.results[m])

\* folds in another order whose mean F1 is reported differently
C18_Witness ==
    /\ agg.stage = "aggregated"
    /\ agg.order # [k \in 1..AggFolds |-> k]
    /\ ~IsNaN(agg.results["f1"])
    /\ agg.reordered["f1"] # agg.results["f1"]

\* C20: load_all_files never raises and returns exactly the tables whose files
\* were found and parsed, warning about every missing file, and the run of
\* load_oulad_data followed by preprocess_oulad_data completes whichever of
\* the seven input files is absent
C20_MissingFileDoesNotAbort ==
    /\ load.stage \in {"loaded", "preprocessed", "aborted"} =>
           /\ load.data = {name \in Range(InputFiles) : load.disk[name] = "ok"}
           /\ \A name \in Range(InputFiles) :
                 load.disk[name] = "absent" => name \in Range(load.warnings)
    /\ load.stage = "loaded" => load.exc = "none"
    /\ load.stage # "aborted"

\* position of a step among the steps started so far, 0 when it has not started
StartedAt(name) ==
    IF \E k \in 1..Len(pipeline.started) : pipeline.started[k] = name
    THEN CHOOSE k \in 1..Len(pipeline.started) : pipeline.started[k] = name
    ELSE 0

\* C19: the steps of a run start in the order load, preprocess, feature
\* engineering, training, SHAP, counterfactuals, optional LLM advice, save
\* predictions, each after the previous one has finished; the model is
\* persisted once, by the training step, before SHAP and counterfactuals; and
\* a failed LLM step leaves the run going on to save the predictions
C19_StagesInOrder ==
    pipeline.stage # "idle" =>
        /\ Len(pipeline.started) <= Len(StageOrder(pipeline.generate_llm))
        /\ pipeline.started =
               SubSeq(StageOrder(pipeline.generate_llm), 1, Len(pipeline.started))
        /\ IF pipeline.stage = "aborted"
           THEN pipeline.finished = SubSeq(pipeline.started, 1, Len(pipeline.started) - 1)
           ELSE pipeline.finished = pipeline.started
        /\ pipeline.model_dumps <= 1
        /\ StartedAt("shap") > 0 \/ StartedAt("counterfactuals") > 0 \/
           pipeline.stage = "completed" =>
               /\ pipeline.model_dumps = 1
               /\ pipeline.dumps_at = <<StartedAt("train")>>
               /\ pipeline.model_file # "None"
        /\ StartedAt("shap") > 0 => StartedAt("train") < StartedAt("shap")
        /\ StartedAt("counterfactuals") > 0 =>
               StartedAt("train") < StartedAt("counterfactuals")
        /\ pipeline.stage = "aborted" =>
               pipeline.started[Len(pipeline.started)] # "llm"
        /\ pipeline.llm_failed =>
               /\ pipeline.stage \in {"advised", "completed", "aborted"}
               /\ pipeline.stage = "completed" /\ pipeline.save_results =>
                      "data/processed/student_predictions.csv" \in pipeline.files

\* a run whose LLM step failed and whose predictions were saved
C19_Witness ==
    /\ pipeline.stage = "completed"
    /\ pipeline.llm_failed
    /\ pipeline.model_dumps = 1
    /\ "data/processed/student_predictions.csv" \in pipeline.files
    /\ "results/llm_advice.json" \notin pipeline.files

InUnit(x) == FLe(Zero, x) /\ FLe(x, One)

\* C21: predict_new_student returns a risk_probability between the smallest
\* and the largest risk label of the selected neighbours and a confidence,
\* both within [0, 1], for every demographic input; without a model it
\* returns risk 0.5 and confidence 0
C21_RiskAndConfidenceInUnit ==
    cold.stage = "predicted" =>
        /\ InUnit(cold.result.risk_probability)
        /\ InUnit(cold.result.confidence)
        /\ cold.model.knn_model = "None" =>
               /\ cold.result.risk_probability = FDiv(One, FromInt(2))
               /\ cold.result.confidence = Zero
        /\ cold.result.method = "demographic_knn" =>
               /\ \E i \in Range(cold.result.indices) :
                     FLe(FromInt(cold.historical_data.is_at_risk[i]),
                         cold.result.risk_probability)
               /\ \E i \in Range(cold.result.indices) :
                     FLe(cold.result.risk_probability,
                         FromInt(cold.historical_data.is_at_risk[i]))

SupportClasses == {proto.support[k][2] : k \in 1..Len(proto.support)}

\* sum of a probability row, columns in increasing order
RowSum(row) == NpSum([k \in 1..Cardinality(DOMAIN row) |-> row[k - 1]], Zero)

\* C22: after fit on a non-empty support set, whatever labels it holds, each
\* class of the support set has its centroid as prototype, predict_proba
\* returns a row of non-negative probabilities that sum to 1 (up to rounding),
\* and predict returns the class of a nearest prototype
C22_CentroidsAndSoftmax ==
    proto.stage = "queried" =>
        /\ \A c \in SupportClasses :
               /\ c \in Range(proto.prototypes.keys)
               /\ proto.prototypes.val[c] = NpMean(ClassExamples(proto.support, c))
        /\ proto.proba.exc = "none"
        /\ proto.pred.exc = "none"
        /\ \A col \in DOMAIN proto.proba.probabilities :
               FLe(Zero, proto.proba.probabilities[col])
        /\ WithinFoldRounding(RowSum(proto.proba.probabilities), One, 2, <<One>>)
        /\ proto.pred.returned[1] \in Range(proto.prototypes.keys)
        /\ \A c \in Range(proto.prototypes.keys) :
               FLe(proto.proba.distances[proto.pred.returned[1]], proto.proba.distances[c])

\* C30: after any sequence of fit calls the stored prototypes are exactly the
\* classes of the most recent support set
C30_OnlyLatestPrototypes ==
    proto.stage \in {"fitted", "queried"} =>
        Range(proto.prototypes.keys) = SupportClasses

\* the creation that first succeeded for an email
FirstCreated(email) ==
    accounts.created[CHOOSE k \in 1..Len(accounts.created) :
                        /\ accounts.created[k].email = email
                        /\ \A j \in 1..(k - 1) : accounts.created[j].email # email]

\* C23: create_student with an email already in the table returns None and
\* leaves the table unchanged; no two students share an email; and
\* authenticate_student with the email and password of the original creation
\* returns the student that creation made
C23_UniqueEmails ==
    accounts.stage = "called" =>
        /\ accounts.call = "create_student" /\
           accounts.email \in RowEmails(accounts.before) =>
               /\ accounts.returned = 0
               /\ accounts.students = accounts.before
        /\ \A j, k \in 1..Len(accounts.students) :
               j # k => accounts.students[j].email # accounts.students[k].email
        /\ accounts.call = "authenticate_student" /\
           (\E k \in 1..Len(accounts.created) :
               accounts.created[k].email = accounts.email) /\
           accounts.password = FirstCreated(accounts.email).password =>
               /\ Len(accounts.row) = 1
               /\ accounts.row[1].id_student = FirstCreated(accounts.email).id_student
               /\ accounts.row[1].email = accounts.email
               /\ accounts.row[1].first_name = FirstCreated(accounts.email).first_name

\* a creation with the email of an existing student, made after another
\* student was created too
C23_Witness ==
    /\ accounts.stage = "called"
    /\ accounts.call = "create_student"
    /\ accounts.email \in RowEmails(accounts.before)
    /\ Len(accounts.before) = 2
    /\ accounts.password # FirstCreated(accounts.email).password
\* ---- C24 ------------------------------------------------------------
\* the questions of the quiz that some response answers with a correct answer
AnsweredCorrectly(questions, responses) ==
    {k \in 1..Len(questions) :
        \E j \in 1..Len(responses) :
           /\ responses[j].question_id = questions[k].id
           /\ IsCorrect(questions[k], responses[j].answer_id)}

\* the points of those questions, each question counted once
PointsOnce(questions, responses) ==
    NpSum([k \in 1..Len(questions) |->
              IF k \in AnsweredCorrectly(questions, responses)
              THEN FromInt(questions[k].points) ELSE Zero], Zero)

SubmitReturned ==
    /\ quiz.stage = "called"
    /\ quiz.call = "submit_quiz_attempt"
    /\ quiz.result.raised = "none"

\* C24: the score a submission reports is 100 * (points of the questions
\* answered with a correct answer, each question counted once) / (total
\* points of the quiz); for every list of responses it lies within 0..100,
\* it is 0 for a quiz without points, passed is 1 exactly when the score
\* reaches the passing_score of the quiz, and answering every question
\* correctly gives 100 and passed
C24_ScoreCountsEachQuestionOnce ==
    SubmitReturned =>
        LET questions == quiz.q.questions
            total_points == TotalPoints(questions)
            r == quiz.result
        IN  /\ r.score = ScoreOf(PointsOnce(questions, quiz.responses), total_points)
            /\ FLe(Zero, r.score)
            /\ FLe(r.score, FromInt(100))
            /\ (~FGt(total_points, Zero) => r.score = Zero)
            /\ (r.passed = 1 <=> FLe(quiz.q.passing_score, r.score))
            /\ r.passed \in {0, 1}
            /\ (/\ questions # <<>>
                /\ AnsweredCorrectly(questions, quiz.responses) = 1..Len(questions)
                => r.score = FromInt(100) /\ r.passed = 1)

\* ---- C25 ------------------------------------------------------------
\* the fields a failed call must leave alone
LifecycleFieldsKept ==
    /\ trainer'.best_model = trainer.best_model
    /\ trainer'.best_model_name = trainer.best_model_name
    /\ trainer'.results = trainer.results
    /\ trainer'.saved = trainer.saved

\* the step is a call of the named method on the trainer
Calls(method) == trainer' # trainer /\ trainer'.call = method

ResultNames(tr) == {tr.results[k].name : k \in 1..Len(tr.results)}

\* C25: select_best_model and get_results_dataframe raise ValueError when
\* there are no cross-validation results, save_model raises ValueError when
\* no best model has been selected, and these failed calls leave best_model,
\* best_model_name and results as they were; a select_best_model call made
\* after train_with_cross_validation leaves best_model_name among the keys
\* of results
C25_LifecycleOrder ==
    [][ /\ (Calls("select_best_model") /\ Len(trainer.results) = 0) =>
              (trainer'.exc = "ValueError" /\ LifecycleFieldsKept)
        /\ (Calls("get_results_dataframe") /\ Len(trainer.results) = 0) =>
              (trainer'.exc = "ValueError" /\ LifecycleFieldsKept)
        /\ (Calls("save_model") /\ trainer.best_model = NoModel) =>
              (trainer'.exc = "ValueError" /\ LifecycleFieldsKept)
        /\ (Calls("select_best_model") /\ Len(trainer.results) > 0) =>
              trainer'.best_model_name \in ResultNames(trainer')
      ]_vars

\* ---- C26 ------------------------------------------------------------
\* the attempt_number values of a student's attempts for the quiz, in the
\* order of their insertion
AttemptNumbers(student_id) ==
    LET rows == get_student_quiz_attempts(quiz.attempts, student_id, QuizId)
    IN  [k \in 1..Len(rows) |-> rows[k].attempt_number]

\* C26: through the start-quiz endpoint a student never holds more attempts
\* for a quiz than its max_attempts, and the attempt numbers of a (student,
\* quiz) pair are distinct and consecutive from 1, in whatever order
\* concurrent start requests of the student arrive and are served
C26_AttemptsBounded ==
    quiz.stage = "serving" =>
        \A student_id \in QuizStudents :
            /\ Len(AttemptNumbers(student_id)) <= quiz.q.max_attempts
            /\ AttemptNumbers(student_id) = [k \in 1..Len(AttemptNumbers(student_id)) |-> k]

\* two requests of one student were unanswered together, the student holds
\* max_attempts attempts and a further request of theirs was refused
C26_Witness ==
    /\ quiz.stage = "serving"
    /\ quiz.concurrent
    /\ quiz.q.max_attempts = 2
    /\ \E p \in 1..Len(quiz.requests) :
          /\ quiz.requests[p].status = 400
          /\ Len(AttemptNumbers(quiz.requests[p].student_id)) = 2
          /\ \E k \in 1..Len(quiz.requests) :
                /\ k > p
                /\ quiz.requests[k].student_id = quiz.requests[p].student_id
                /\ quiz.requests[k].status = 200

\* ---- C27 ------------------------------------------------------------
\* the votes a (post, student) pair has in a table
VotesOf(votes, post_id, student_id) ==
    SelectSeq(votes, LAMBDA row : row.post_id = post_id /\ row.student_id = student_id)

\* the vote types of the pair (at most one when the pair has one vote)
TypesOf(votes, post_id, student_id) ==
    {VotesOf(votes, post_id, student_id)[k].vote_type :
        k \in 1..Len(VotesOf(votes, post_id, student_id))}

\* C27: after any sequence of vote_forum_post calls each (post, student)
\* pair has at most one vote; a vote of the type of the existing vote
\* removes it, so that two identical votes in a row on a pair without a
\* vote leave the table as it was, and a vote of the other type replaces
\* the existing vote; votes of other students and on other posts are
\* unchanged
C27_OneVotePerPair ==
    forum.stage = "called" =>
        LET r == forum.request
            old == TypesOf(forum.before, r.post_id, r.student_id)
            new == TypesOf(forum.votes, r.post_id, r.student_id)
        IN  /\ \A post_id \in ForumPosts, student_id \in ForumStudents :
                  Len(VotesOf(forum.votes, post_id, student_id)) <= 1
            /\ old = {r.vote_type} => new = {}
            /\ (old # {} /\ old # {r.vote_type}) => new = {r.vote_type}
            /\ (/\ forum.previous = r
                /\ forum.status = 200
                /\ TypesOf(forum.before_previous, r.post_id, r.student_id) = {}
                => forum.votes = forum.before_previous)
            /\ \A post_id \in ForumPosts, student_id \in ForumStudents :
                  <<post_id, student_id>> # <<r.post_id, r.student_id>> =>
                      VotesOf(forum.votes, post_id, student_id)
                          = VotesOf(forum.before, post_id, student_id)

\* a student's like was replaced by their dislike and the dislike was then
\* removed by a second dislike, while another student's vote on the post
\* stayed
C27_Witness ==
    /\ forum.stage = "called"
    /\ forum.status = 200
    /\ forum.previous = forum.request
    /\ forum.request.vote_type = "dislike"
    /\ TypesOf(forum.before_previous, forum.request.post_id, forum.request.student_id)
          = {"like"}
    /\ TypesOf(forum.before, forum.request.post_id, forum.request.student_id)
          = {"dislike"}
    /\ TypesOf(forum.votes, forum.request.post_id, forum.request.student_id) = {}
    /\ \E student_id \in ForumStudents :
          /\ student_id # forum.request.student_id
          /\ TypesOf(forum.votes, forum.request.post_id, student_id) # {}

\* ---- C28 ------------------------------------------------------------
\* the watch percentage recorded for a student and a lesson (0 without a row)
RecordedWatch(rows, student_id, lesson_id) ==
    LET found == FetchOne(rows, LAMBDA row : /\ row.student_id = student_id
                                              /\ row.lesson_id = lesson_id)
    IN  IF found = <<>> THEN Zero ELSE found[1].watch_percentage

\* C28: after any sequence of progress operations a video lesson is
\* recorded as completed for a student only if the watch percentage
\* recorded for them is at least 80, and can_mark_lesson_complete answers
\* True for a video lesson exactly when that percentage is at least 80,
\* True for a lesson that is no video and False for an unknown lesson
C28_CompletedOnlyWhenWatched ==
    progress.stage = "called" =>
        /\ \A k \in 1..Len(progress.rows) :
              (/\ LessonType[progress.rows[k].lesson_id] = "video"
               /\ progress.rows[k].completed = 1)
              => FLe(FromInt(80), progress.rows[k].watch_percentage)
        /\ progress.call = "can_mark_lesson_complete" =>
              progress.can_complete =
                  IF progress.lesson_id \notin DOMAIN LessonType THEN FALSE
                  ELSE IF LessonType[progress.lesson_id] = "video"
                       THEN FLe(FromInt(80), RecordedWatch(progress.rows,
                                                          progress.student_id,
                                                          progress.lesson_id))
                       ELSE TRUE

\* ---- C29 ------------------------------------------------------------
\* the columns update_student_progress is not given
KeptColumns(row) ==
    <<row.video_watch_time, row.video_duration, row.watch_percentage,
      row.time_spent_minutes>>

\* C29: update_student_progress changes only completed, progress_percent
\* and last_accessed of the (student, course, lesson) record: the record's
\* video_watch_time, video_duration, watch_percentage and
\* time_spent_minutes stay as recorded, and every other record is unchanged
C29_OnlyProgressColumnsChange ==
    (progress.stage = "called" /\ progress.call = "update_student_progress") =>
        /\ \A k \in 1..Len(progress.before) :
              LET old == progress.before[k]
              IN  \E j \in 1..Len(progress.rows) :
                     /\ SameKey(progress.rows[j], old.student_id, old.course_id,
                                old.lesson_id)
                     /\ IF SameKey(old, progress.student_id, CourseId, progress.lesson_id)
                        THEN KeptColumns(progress.rows[j]) = KeptColumns(old)
                        ELSE progress.rows[j] = old
        /\ \A j \in 1..Len(progress.rows) :
              \/ SameKey(progress.rows[j], progress.student_id, CourseId,
                         progress.lesson_id)
              \/ \E k \in 1..Len(progress.before) : progress.before[k] = progress.rows[j]
====